---- MODULE Spec2Model ----
(***************************************************************************)
(* A model of the V2Crawler pipeline: the duplicate checker                *)
(* (src/duplicate.py), the retrying request of the scraper base class      *)
(* (src/base.py), the pagination and the outlinks of a Telegram feed       *)
(* (src/scrapper.py), the source tasks of scrape_all_sources (src/main.py) *)
(* and the batch of raw-text URLs (src/extractor.py).                      *)
(*                                                                         *)
(* Strings are sequences of tokens.  A token is a run of characters that   *)
(* no operation of the program splits: a scheme prefix ("trojan://"), a    *)
(* separator ("#", "@", ":", " "), a host, a port, a credential, a base64  *)
(* body.  The patterns of the extractor can end a match between the "vme"  *)
(* and the "ss://" of "vmess://", and start one at the "ss://" of          *)
(* "vless://", so these two prefixes are two tokens each: "vme" or "vle",  *)
(* then "ss://".  No token is a concatenation of other tokens, so two      *)
(* token sequences are equal exactly when the strings they spell are       *)
(* equal.                                                                  *)
(***************************************************************************)
EXTENDS Integers, Sequences, FiniteSets, TLC

(***************************************************************************)
(* Bounds of the model.                                                    *)
(***************************************************************************)
\* most links in one dictionary handed to deduplicate_links
MaxBatch == 2

\* largest retries value a Scraper is constructed with (the default is 3)
MaxRetries == 3

\* most pages of a feed, and most post elements on one page
MaxPages == 2

MaxPostsPerPage == 2

\* most Telegram channels of one UnifiedChannelScraper
MaxChannels == 2

\* most <a> elements in one post element
MaxAnchors == 3

\* most URLs of one SimpleGitHubChannelScraper
MaxUrls == 2

\* most links in one text handed to extract_links
MaxTextLinks == 2

\* most runs of run_scraper that main starts
MaxRuns == 2

\* largest number before the '.' and most digits behind it in a text handed
\* to _parse_number_with_suffix
MaxWhole == 32

MaxDecimals == 1

(***************************************************************************)
(* The string layer.                                                       *)
(***************************************************************************)
\* the five protocols, in the order of the dictionaries the program builds
\* ({'vmess': [], 'vless': [], 'ss': [], 'trojan': [], 'ssr': []})
ProtocolOrder == <<"vmess", "vless", "ss", "trojan", "ssr">>

Protocols == {ProtocolOrder[i] : i \in 1..Len(ProtocolOrder)}

\* the prefix protocol p's links start with
Prefix(p) == CASE p = "vmess" -> <<"vme", "ss://">>
               [] p = "vless" -> <<"vle", "ss://">>
               [] p = "ss" -> <<"ss://">>
               [] p = "trojan" -> <<"trojan://">>
               [] p = "ssr" -> <<"ssr://">>

\* base64 of {"add":"h.io","port":443,"id":"u1","net":"ws","type":"none","ps":"x"}
BodyA == "eyJhZGQiOiJoLmlvIiwicG9ydCI6NDQzLCJpZCI6InUxIiwibmV0Ijoid3MiLCJ0eXBlIjoibm9uZSIsInBzIjoieCJ9"

\* base64 of the same object with "ps":"yy" (one more byte, hence padded)
BodyB == "eyJhZGQiOiJoLmlvIiwicG9ydCI6NDQzLCJpZCI6InUxIiwibmV0Ijoid3MiLCJ0eXBlIjoibm9uZSIsInBzIjoieXkifQ=="

\* base64 of the same object as BodyA with "port":0
BodyZ == "eyJhZGQiOiJoLmlvIiwicG9ydCI6MCwiaWQiOiJ1MSIsIm5ldCI6IndzIiwidHlwZSI6Im5vbmUiLCJwcyI6IngifQ=="

\* base64 of the same object as BodyA with "port":70000
BodyW == "eyJhZGQiOiJoLmlvIiwicG9ydCI6NzAwMDAsImlkIjoidTEiLCJuZXQiOiJ3cyIsInR5cGUiOiJub25lIiwicHMiOiJ4In0="

\* base64 of the same object as BodyA with "ps":""
BodyE == "eyJhZGQiOiJoLmlvIiwicG9ydCI6NDQzLCJpZCI6InUxIiwibmV0Ijoid3MiLCJ0eXBlIjoibm9uZSIsInBzIjoiIn0="

\* 36 hexadecimal digits that are also base64, of "h\x07:" nine times
Hex36 == "aAc6aAc6aAc6aAc6aAc6aAc6aAc6aAc6aAc6"

\* str.lower() of one token
LowerToken(t) ==
    CASE t = BodyA -> "eyjhzgqioijolmlviiwicg9ydci6ndqzlcjpzci6inuxiiwibmv0ijoid3milcj0exblijoibm9uzsisinbzijoiecj9"
      [] t = BodyB -> "eyjhzgqioijolmlviiwicg9ydci6ndqzlcjpzci6inuxiiwibmv0ijoid3milcj0exblijoibm9uzsisinbzijoiexkifq=="
      [] t = BodyZ -> "eyjhzgqioijolmlviiwicg9ydci6mcwiawqioij1msisim5ldci6indziiwidhlwzsi6im5vbmuilcjwcyi6ingifq=="
      [] t = BodyE -> "eyjhzgqioijolmlviiwicg9ydci6ndqzlcjpzci6inuxiiwibmv0ijoid3milcj0exblijoibm9uzsisinbzijoiin0="
      [] t = BodyW -> "eyjhzgqioijolmlviiwicg9ydci6nzawmdasimlkijoidteilcjuzxqioij3cyisinr5cguioijub25liiwichmioij4in0="
      [] t = Hex36 -> "aac6aac6aac6aac6aac6aac6aac6aac6aac6"
      [] t = "YTpiYTpiY" -> "ytpiytpiy"
      [] t = "YWJjZGVm" -> "ywjjzgvm"
      [] t = "TROJAN://" -> "trojan://"
      [] t = "YTpiYTpi" -> "ytpiytpi"
      [] t = "YTpiYTpI" -> "ytpiytpi"
      [] t = "aGVsbG86d29ybGQ6eA" -> "agvsbg86d29ybgq6ea"
      [] t = "H.IO" -> "h.io"
      [] t = "None" -> "none"
      [] OTHER -> t

\* str.lower() of a string
Lower(s) == [i \in 1..Len(s) |-> LowerToken(s[i])]

\* the characters str.strip() removes
IsSpace(t) == t \in {" ", "\n", "\t", "\r"}

\* str.strip()
RECURSIVE LStrip(_)
LStrip(s) == IF s # <<>> /\ IsSpace(Head(s)) THEN LStrip(Tail(s)) ELSE s

RECURSIVE RStrip(_)
RStrip(s) == IF s # <<>> /\ IsSpace(s[Len(s)]) THEN RStrip(SubSeq(s, 1, Len(s) - 1)) ELSE s

Strip(s) == RStrip(LStrip(s))

\* the positions of token t in s
Positions(s, t) == {i \in 1..Len(s) : s[i] = t}

Min(S) == CHOOSE x \in S : \A y \in S : x <= y

Max(S) == CHOOSE x \in S : \A y \in S : x >= y

\* s.split(t, 1)[0] and [1], for t in s
Before(s, t) == SubSeq(s, 1, Min(Positions(s, t)) - 1)

After(s, t) == SubSeq(s, Min(Positions(s, t)) + 1, Len(s))

\* s.split(t)[0]
SplitFirst(s, t) == IF Positions(s, t) = {} THEN s ELSE Before(s, t)

\* re.sub(r'#[^#]*$', '', s): the last '#' and everything after it goes
RemoveFragment(s) ==
    IF Positions(s, "#") = {} THEN s
    ELSE SubSeq(s, 1, Max(Positions(s, "#")) - 1)

(***************************************************************************)
(* Library functions the checker calls, on the tokens of the model.        *)
(***************************************************************************)
\* json.loads(base64.b64decode(body, validate=True).decode('utf-8')) of the
\* bodies that decode to a JSON object; every other body raises
VmessConfigs ==
    (BodyA :> [add |-> <<"h.io">>, port |-> 443, id |-> <<"u1">>,
               net |-> <<"ws">>, type |-> <<"none">>, ps |-> <<"x">>])
 @@ (BodyB :> [add |-> <<"h.io">>, port |-> 443, id |-> <<"u1">>,
               net |-> <<"ws">>, type |-> <<"none">>, ps |-> <<"yy">>])
 @@ (BodyZ :> [add |-> <<"h.io">>, port |-> 0, id |-> <<"u1">>,
               net |-> <<"ws">>, type |-> <<"none">>, ps |-> <<"x">>])
 @@ (BodyW :> [add |-> <<"h.io">>, port |-> 70000, id |-> <<"u1">>,
               net |-> <<"ws">>, type |-> <<"none">>, ps |-> <<"x">>])
 @@ (BodyE :> [add |-> <<"h.io">>, port |-> 443, id |-> <<"u1">>,
               net |-> <<"ws">>, type |-> <<"none">>, ps |-> <<>>])

\* a body is one token; with '#', '@' or whitespace after it b64decode raises
Decodable(body) == Len(body) = 1 /\ body[1] \in DOMAIN VmessConfigs

\* int(text) of a digit token, and str(n) back
PortValue == ("443" :> 443) @@ ("0443" :> 443) @@ ("8388" :> 8388) @@ ("99999" :> 99999)

PortText(n) == CASE n = 443 -> "443" [] n = 8388 -> "8388"
                 [] n = 0 -> "0" [] n = 70000 -> "70000"

\* s[n:]
Drop(s, n) == SubSeq(s, n + 1, Len(s))

\* urlparse(link).netloc: from behind the scheme to the first '/', '?' or '#'
\* (no link of the model has a second "//" behind its '@')
Netloc(link) ==
    LET rest == IF Head(link) \in {"vme", "vle"} THEN Drop(link, 2) ELSE Tail(link)
        stops == {i \in 1..Len(rest) : rest[i] \in {"/", "?", "#"}}
    IN  IF stops = {} THEN rest ELSE SubSeq(rest, 1, Min(stops) - 1)

\* netloc.rpartition('@')[2]
HostInfo(link) ==
    LET n == Netloc(link)
    IN  IF Positions(n, "@") = {} THEN n
        ELSE SubSeq(n, Max(Positions(n, "@")) + 1, Len(n))

\* urlparse(link).hostname, lower-cased, None when empty
Hostname(link) ==
    LET h == SplitFirst(HostInfo(link), ":")
    IN  IF h = <<>> THEN <<"None">> ELSE Lower(h)

\* the text behind the first ':' of the host part
PortPart(link) ==
    LET h == HostInfo(link)
    IN  IF Positions(h, ":") = {} THEN <<>> ELSE After(h, ":")

\* urlparse(link).port raises ValueError: not digits, or above 65535
PortRaises(link) ==
    LET p == PortPart(link)
    IN  /\ p # <<>>
        /\ \/ Len(p) # 1
           \/ p[1] \notin DOMAIN PortValue
           \/ PortValue[p[1]] > 65535

\* str(urlparse(link).port)
PortString(link) ==
    LET p == PortPart(link)
    IN  IF p = <<>> THEN <<"None">> ELSE <<PortText(PortValue[p[1]])>>

(***************************************************************************)
(* DuplicateChecker (src/duplicate.py).                                    *)
(***************************************************************************)
\* link.startswith(prefix)
StartsWith(link, prefix) ==
    /\ Len(link) >= Len(prefix)
    /\ SubSeq(link, 1, Len(prefix)) = prefix

normalize_link(link) == Lower(Strip(RemoveFragment(link)))

\* lines 25-48: the try block of extract_config_signature: the signature it
\* returns, the exception it raises, or neither when it runs to its end
signature_try(link) ==
    IF StartsWith(link, Prefix("vmess"))
    THEN IF ~Decodable(Drop(link, 2)) THEN [raised |-> "ValueError"]
         ELSE LET config == VmessConfigs[link[3]]
              IN  [returned |->
                      config.add \o <<"|">> \o <<PortText(config.port)>> \o <<"|">>
                         \o config.id \o <<"|">> \o config.net \o <<"|">> \o config.type]
    ELSE IF StartsWith(link, Prefix("ss"))
    THEN IF Positions(Tail(link), "@") = {} THEN [ended |-> TRUE]
         ELSE LET link_data == Tail(link)
                  creds == Before(link_data, "@")
                  server == SplitFirst(After(link_data, "@"), "#")
              IN  [returned |-> creds \o <<"@">> \o server]
    ELSE IF StartsWith(link, Prefix("vless")) \/ StartsWith(link, Prefix("trojan"))
    THEN IF PortRaises(link) THEN [raised |-> "ValueError"]
         ELSE [returned |-> Hostname(link) \o <<":">> \o PortString(link)]
    ELSE [ended |-> TRUE]

\* lines 46-53: what follows the try block: its signature if it returned
\* one, else (except Exception: pass, or the end of the block) the
\* normalized link
AfterTry(try, link) ==
    IF "returned" \in DOMAIN try THEN try.returned ELSE normalize_link(link)

\* extract_config_signature without its except clause: the exception leaves
\* the call, written as a signature no link has
extract_config_signature_uncaught(link) ==
    IF "raised" \in DOMAIN signature_try(link)
    THEN <<"raised", signature_try(link).raised>>
    ELSE AfterTry(signature_try(link), link)

\* lines 23-53: the signature of the try block, or after an exception
\* (except Exception: pass) or the end of the block, the normalized link
extract_config_signature(link) == AfterTry(signature_try(link), link)

\* the links of the model: same signature under different text (VA/VB,
\* L1/L2/T1, S2/S3), same text under different signatures (S1/S2)
VA == <<"vme", "ss://", BodyA>>

VB == <<"vme", "ss://", BodyB>>

L1 == <<"vle", "ss://", "11111111-1111-1111-1111-111111111111", "@", "h.io", ":", "443">>

L2 == <<"vle", "ss://", "22222222-2222-2222-2222-222222222222", "@", "h.io", ":", "443">>

T1 == <<"trojan://", "abcdef01", "@", "h.io", ":", "443">>

S1 == <<"ss://", "YTpiYTpi", "@", "h.io", ":", "8388">>

S2 == <<"ss://", "YTpiYTpI", "@", "h.io", ":", "8388">>

S3 == <<"ss://", "YTpiYTpI", "@", "h.io", ":", "8388", "#", "a", "#", "b">>

R1 == <<"ssr://", "aGVsbG86d29ybGQ6eA">>

\* candidates the extractor rejects, or accepts without a port: a port of 0
\* and one of 70000 in the vmess object, an empty ps in it, no port behind the host, an
\* upper-case scheme, credentials of nine characters, credentials of "abcdef"
\* (no ':'), a port of 99999
VZ == <<"vme", "ss://", BodyZ>>

VW == <<"vme", "ss://", BodyW>>

VE == <<"vme", "ss://", BodyE>>

LH == <<"vle", "ss://", "11111111-1111-1111-1111-111111111111", "@", "h">>

\* a vless link whose credential is also base64
LX == <<"vle", "ss://", Hex36, "@", "h.io", ":", "443">>

TU == <<"TROJAN://", "abcdef01", "@", "h.io", ":", "443">>

SX == <<"ss://", "YTpiYTpiY", "@", "h.io", ":", "8388">>

SC == <<"ss://", "YWJjZGVm", "@", "h.io", ":", "8388">>

SP == <<"ss://", "YTpiYTpi", "@", "h.io", ":", "99999">>

DedupLinks == {VA, L1, T1, S1, S2, S3, R1}

\* links without a configuration to read: a vmess body that is not base64,
\* one that is base64 of "not" (no JSON), a vmess link without body, an ss
\* link without '@', a vless link with port 99999, a trojan link with port
\* "abc", a link of another scheme, no text at all
VQ == <<"vme", "ss://", "%%%">>

VN == <<"vme", "ss://", "bm90">>

V0 == <<"vme", "ss://">>

SN == <<"ss://", "YTpiYTpi">>

LP == <<"vle", "ss://", "11111111-1111-1111-1111-111111111111", "@", "h.io", ":", "99999">>

TP == <<"trojan://", "abcdef01", "@", "h.io", ":", "abc">>

HX == <<"http://", "h.io">>

OddLinks == {VQ, VN, V0, SN, LP, TP, HX, <<>>}

\* the links a dictionary holds under key p
LinksOf(p) == {l \in DedupLinks : StartsWith(l, Prefix(p))}

\* {'vmess': [], 'vless': [], 'ss': [], 'trojan': [], 'ssr': []}
EmptyLinks == [p \in Protocols |-> <<>>]

\* the link strings of a list
Members(list) == {list[i] : i \in 1..Len(list)}

\* the link strings of a dictionary, over all protocols
AllMembers(links) == UNION {Members(links[p]) : p \in Protocols}

\* sequences over S of length at most n
SeqsUpTo(S, n) == UNION {[1..k -> S] : k \in 0..n}

RECURSIVE SumLen(_, _)
SumLen(links, ps) ==
    IF ps = <<>> THEN 0 ELSE Len(links[Head(ps)]) + SumLen(links, Tail(ps))

\* sum(len(v) for v in links.values())
TotalLinks(links) == SumLen(links, ProtocolOrder)

\* the dictionaries handed to deduplicate_links
BatchInputs ==
    {links \in [vmess : SeqsUpTo(LinksOf("vmess"), MaxBatch),
                vless : SeqsUpTo(LinksOf("vless"), MaxBatch),
                ss : SeqsUpTo(LinksOf("ss"), MaxBatch),
                trojan : SeqsUpTo(LinksOf("trojan"), MaxBatch),
                ssr : SeqsUpTo(LinksOf("ssr"), MaxBatch)] :
        TotalLinks(links) <= MaxBatch}

\* the dictionaries of one pass: any two links, and three links of one
\* protocol and of three protocols
PassInputs ==
    {[EmptyLinks EXCEPT !["ss"] = <<S1, S2, S3>>],
     [EmptyLinks EXCEPT !["ss"] = <<S3, S1, S2>>],
     [EmptyLinks EXCEPT !["ss"] = <<S1, S1, S3>>],
     [EmptyLinks EXCEPT !["vmess"] = <<VA>>, !["vless"] = <<L1>>, !["trojan"] = <<T1>>],
     [EmptyLinks EXCEPT !["vless"] = <<L1, L2>>, !["trojan"] = <<T1>>]}
    \cup {links \in [vmess : SeqsUpTo(LinksOf("vmess"), 2),
                      vless : SeqsUpTo(LinksOf("vless"), 2),
                      ss : SeqsUpTo(LinksOf("ss"), 2),
                      trojan : SeqsUpTo(LinksOf("trojan"), 2),
                      ssr : SeqsUpTo(LinksOf("ssr"), 2)] :
              TotalLinks(links) = 2}

(***************************************************************************)
(* VPNLinkExtractor (src/extractor.py).  The patterns are matched as the   *)
(* re module matches them, on tokens: a match can only begin and end       *)
(* between two tokens, since no token of the model holds a scheme prefix   *)
(* or whitespace inside other text.                                        *)
(***************************************************************************)
\* len() of one token
Chars(t) ==
    CASE t \in {"@", ":", "#", " ", "\n", "a", "b", "h"} -> 1
      [] t \in {"vme", "vle", "443"} -> 3
      [] t \in {"h.io", "8388"} -> 4
      [] t \in {"ss://", "99999"} -> 5
      [] t = "ssr://" -> 6
      [] t \in {"abcdef01", "YTpiYTpi", "YTpiYTpI", "YWJjZGVm"} -> 8
      [] t \in {"trojan://", "TROJAN://", "YTpiYTpiY"} -> 9
      [] t = "aGVsbG86d29ybGQ6eA" -> 18
      [] t \in {"11111111-1111-1111-1111-111111111111",
                "22222222-2222-2222-2222-222222222222", Hex36} -> 36
      [] t \in {BodyA, BodyZ, BodyE} -> 92
      [] t \in {BodyB, BodyW} -> 96

\* len() of a string
RECURSIVE Length(_)
Length(s) == IF s = <<>> THEN 0 ELSE Chars(Head(s)) + Length(Tail(s))

\* [A-Za-z0-9+/=]: every character of the token is in the class
Base64Class(t) ==
    t \in {"vme", "vle", "a", "b", "h", "443", "8388", "99999", "abcdef01",
           "YTpiYTpi", "YTpiYTpI", "YTpiYTpiY", "YWJjZGVm",
           "aGVsbG86d29ybGQ6eA", Hex36, BodyA, BodyB, BodyZ, BodyW, BodyE}

\* [a-f0-9\-] under re.IGNORECASE
HexClass(t) ==
    t \in {"a", "b", "443", "8388", "99999", "abcdef01", Hex36,
           "11111111-1111-1111-1111-111111111111",
           "22222222-2222-2222-2222-222222222222"}

\* [^\s]
NotSpace(t) == ~IsSpace(t)

\* [^\s#]
NotSpaceNotHash(t) == ~IsSpace(t) /\ t # "#"

\* the literal prefix of protocol p at position i, under re.IGNORECASE
PrefixAt(text, i, p) ==
    /\ i + Len(Prefix(p)) - 1 <= Len(text)
    /\ Lower(SubSeq(text, i, i + Len(Prefix(p)) - 1)) = Prefix(p)

\* (?=\s|$|vmess://|vless://|ss://|trojan://|ssr://) before position i
Lookahead(text, i) ==
    \/ i > Len(text)
    \/ IsSpace(text[i])
    \/ \E p \in Protocols : PrefixAt(text, i, p)

\* the character classes of the patterns, by name
InClass(class, t) ==
    CASE class = "base64" -> Base64Class(t)
      [] class = "hex" -> HexClass(t)
      [] class = "not space" -> NotSpace(t)
      [] class = "not space, not #" -> NotSpaceNotHash(t)

\* the last position of the longest run of tokens of a class from i on
\* (i - 1 for the empty run)
RunEnd(text, i, class) ==
    Max({e \in (i - 1)..Len(text) : \A k \in i..e : InClass(class, text[k])})

\* [class]{least,}(?=...) from position i: greedy, the longest run with the
\* lookahead behind it; 0 when there is none
GreedyBody(text, i, least) ==
    LET ends == {e \in i..RunEnd(text, i, "base64") :
                    /\ Length(SubSeq(text, i, e)) >= least
                    /\ Lookahead(text, e + 1)}
    IN  IF ends = {} THEN 0 ELSE Max(ends)

\* [^\s]+?(?=...) and [^\s]*?(?=...) from position i: lazy, the shortest
\* run of at least `least` tokens with the lookahead behind it
LazyTail(text, i, least) ==
    LET ends == {e \in (i - 1 + least)..RunEnd(text, i, "not space") :
                    Lookahead(text, e + 1)}
    IN  IF ends = {} THEN 0 ELSE Min(ends)

\* the credential segment [class]{least,} or [class]{least} from position i
\* with '@' behind it: the position of the '@', or 0
Credential(text, i, class, least, exactly) ==
    LET e == RunEnd(text, i, class)
        n == Length(SubSeq(text, i, e))
    IN  IF /\ e >= i
           /\ IF exactly THEN n = least ELSE n >= least
           /\ e + 1 <= Len(text)
           /\ text[e + 1] = "@"
        THEN e + 1 ELSE 0

\* lines 24-28: the last position of the match of protocol p's pattern that
\* begins at position i, or 0
MatchEnd(p, text, i) ==
    IF ~PrefixAt(text, i, p) THEN 0
    ELSE LET b == i + Len(Prefix(p))
         IN  CASE p = "vmess" -> GreedyBody(text, b, 8)
               [] p = "ssr" -> GreedyBody(text, b, 12)
               [] p = "vless" ->
                    LET at == Credential(text, b, "hex", 36, TRUE)
                    IN  IF at = 0 THEN 0 ELSE LazyTail(text, at + 1, 1)
               [] p = "trojan" ->
                    LET at == Credential(text, b, "hex", 8, FALSE)
                    IN  IF at = 0 THEN 0 ELSE LazyTail(text, at + 1, 1)
               [] p = "ss" ->
                    LET at == Credential(text, b, "base64", 8, FALSE)
                        g == RunEnd(text, at + 1, "not space, not #")
                    IN  IF at = 0 \/ g < at + 1 THEN 0
                        ELSE IF g + 1 <= Len(text) /\ text[g + 1] = "#"
                        THEN LazyTail(text, g + 2, 0)
                        ELSE g

\* pattern.findall(text): the matches from left to right, the search going
\* on behind each match
RECURSIVE findall(_, _, _)
findall(p, text, i) ==
    IF i > Len(text) THEN <<>>
    ELSE LET e == MatchEnd(p, text, i)
         IN  IF e = 0 THEN findall(p, text, i + 1)
             ELSE <<SubSeq(text, i, e)>> \o findall(p, text, e + 1)

\* the '=' characters at the end of a token
PadChars(t) == CASE t \in {BodyB, BodyZ} -> 2 [] t \in {BodyW, BodyE} -> 1 [] OTHER -> 0

\* base64.b64decode(s + '=' * extra, validate=True) raises binascii.Error:
\* a character outside the alphabet, a '=' before the end, or data
\* characters and padding that do not make whole quads
Base64Raises(s, extra) ==
    \/ \E i \in 1..Len(s) : ~Base64Class(s[i])
    \/ \E i \in 1..(Len(s) - 1) : PadChars(s[i]) > 0
    \/ LET pad == IF s = <<>> THEN 0 ELSE PadChars(s[Len(s)])
           d == Length(s) - pad
           e == pad + extra
       IN  ~ \/ d % 4 = 0 /\ (d > 0 \/ e = 0)
             \/ d % 4 = 2 /\ e = 2
             \/ d % 4 = 3 /\ e = 1

\* lines 31-43
is_valid_base64(s) ==
    /\ Length(s) >= 4
    /\ ~Base64Raises(s, IF Length(s) % 4 = 0 THEN 0 ELSE 4 - (Length(s) % 4))

\* .decode('utf-8') of the decoded bytes, for the texts of the model that
\* b64decode accepts: "none" when it raises UnicodeDecodeError
DecodedText(s) ==
    CASE s = <<"YTpiYTpi">> -> <<"a", ":", "ba", ":", "b">>
      [] s = <<"YTpiYTpI">> -> <<"a", ":", "ba", ":", "H">>
      [] s = <<"YWJjZGVm">> -> <<"abcdef">>
      [] s = <<Hex36>> -> <<"h\\x07", ":", "h\\x07", ":", "h\\x07", ":",
                            "h\\x07", ":", "h\\x07", ":", "h\\x07", ":",
                            "h\\x07", ":", "h\\x07", ":", "h\\x07", ":">>
      [] s \in {<<"abcdef01">>, <<"8388">>} -> "none"
      [] Len(s) = 1 /\ s[1] \in DOMAIN VmessConfigs -> <<"{", s[1], "}">>

\* lines 83 and 127: 1 <= port <= 65535
PortInRange(n) == 1 <= n /\ n <= 65535

\* the tokens with a ':' in them
HasColon(t) == t \in {":", "ss://", "trojan://", "TROJAN://", "ssr://"}

\* int(port) raises ValueError: the text is not one run of digits
IntRaises(port) == Len(port) # 1 \/ port[1] \notin DOMAIN PortValue

\* the credentials taken to be valid whatever they are
CredentialsOk_any(credentials) == TRUE

\* lines 66 and 89-93: the credentials are base64 of a text with a ':'
CredentialsOk(credentials) ==
    /\ is_valid_base64(credentials)
    /\ ~Base64Raises(credentials, 0)
    /\ DecodedText(credentials) # "none"
    /\ Positions(DecodedText(credentials), ":") # {}

\* lines 45-101
validate_ss_link(link) ==
    /\ StartsWith(link, Prefix("ss"))
    /\ Positions(Tail(link), "@") # {}
    /\ LET link_data == Tail(link)
           credentials == Before(link_data, "@")
           server_info == After(link_data, "@")
           server_part == SplitFirst(server_info, "#")
           colons == {i \in 1..Len(server_part) : HasColon(server_part[i])}
       IN  /\ colons # {}
           /\ LET c == Max(colons)
                  host == SubSeq(server_part, 1, c - 1)
                  port == SubSeq(server_part, c + 1, Len(server_part))
              IN  /\ server_part[c] = ":"
                  /\ host # <<>>
                  /\ port # <<>>
                  /\ ~IntRaises(port)
                  /\ PortInRange(PortValue[port[1]])
           /\ CredentialsOk(credentials)

\* a required field counted as present when it is empty or zero
Filled_any(config) == TRUE

\* lines 119-122: add, port, id and ps are there and not empty
Filled(config) ==
    /\ config.add # <<>>
    /\ config.port # 0
    /\ config.id # <<>>
    /\ config.ps # <<>>

\* lines 103-138
validate_vmess_link(link) ==
    /\ StartsWith(link, Prefix("vmess"))
    /\ LET link_data == Drop(link, 2)
       IN  /\ is_valid_base64(link_data)
           /\ ~Base64Raises(link_data, 0)
           /\ Len(link_data) = 1
           /\ link_data[1] \in DOMAIN VmessConfigs
           /\ Filled(VmessConfigs[link_data[1]])
           /\ PortInRange(VmessConfigs[link_data[1]].port)

\* the check passing every match
validate_link_any(link) == TRUE

\* the check with link.lower().startswith(...)
validate_link_lowered(link) ==
    \E p \in Protocols :
        /\ StartsWith(Lower(link), Prefix(p))
        /\ Length(link) > Length(Prefix(p)) - 3 + 10

\* lines 160-175: a lower-case scheme prefix and more than ten characters
\* behind the scheme name; a match holds no '\n', '\r' or '\t'
validate_link(link) ==
    \E p \in Protocols :
        /\ StartsWith(link, Prefix(p))
        /\ Length(link) > Length(Prefix(p)) - 3 + 10

\* lines 147-156: the match is appended to links[protocol]
Accepts(p, match) ==
    IF p = "ss" /\ ~validate_ss_link(match) THEN FALSE
    ELSE IF p = "vmess" /\ ~validate_vmess_link(match) THEN FALSE
    ELSE validate_link(match)

\* line 145, for every protocol
Matches(text) == [p \in Protocols |-> findall(p, text, 1)]

\* lines 146-156: the matches that pass validation, in the order found
Validated(matches) ==
    [p \in Protocols |-> SelectSeq(matches[p], LAMBDA m : Accepts(p, m))]

\* lines 140-158
ExtractLinks(text) == Validated(Matches(text))

\* the links the texts of the model are made of
Candidates == {VA, VB, VZ, VW, VE, L1, LH, LX, T1, TU, S1, S3, SX, SC, SP, R1}

\* what stands between two links of a text: nothing, or a space
Separators == {<<>>, <<" ">>}

\* the texts of n links
RECURSIVE TextsOf(_)
TextsOf(n) ==
    IF n = 0 THEN {<<>>}
    ELSE {t \o sep \o c : t \in TextsOf(n - 1), sep \in Separators, c \in Candidates}

\* the texts of the model; a text begins with a link
Texts == {t \in UNION {TextsOf(n) : n \in 0..MaxTextLinks} : t = <<>> \/ ~IsSpace(t[1])}

(***************************************************************************)
(* TelegramChannelScraper._parse_number_with_suffix (src/scrapper.py).     *)
(* A float is an IEEE 754 double: a significand of at most 53 bits and a   *)
(* power of two.  Naturals beyond the integers of the checker are          *)
(* sequences of bits, the highest first and not 0; the empty sequence is   *)
(* zero.                                                                   *)
(***************************************************************************)
Zeros(k) == [i \in 1..k |-> 0]

\* the bits without leading zeros
Trim(b) ==
    LET ones == {i \in 1..Len(b) : b[i] = 1}
    IN  IF ones = {} THEN <<>> ELSE SubSeq(b, Min(ones), Len(b))

RECURSIVE BitsOf(_)
BitsOf(n) == IF n = 0 THEN <<>> ELSE Append(BitsOf(n \div 2), n % 2)

RECURSIVE NatOf(_)
NatOf(b) == IF b = <<>> THEN 0 ELSE 2 * NatOf(SubSeq(b, 1, Len(b) - 1)) + b[Len(b)]

\* a + b
SumBits(a, b) ==
    LET n == Max({Len(a), Len(b)}) + 1
        A == Zeros(n - Len(a)) \o a
        B == Zeros(n - Len(b)) \o b
        \* the carry into bit i: a lower bit is 1 in both numbers, and of
        \* every bit between the two at least one number has a 1
        carry(i) == IF \E j \in (i + 1)..n :
                          /\ A[j] + B[j] = 2
                          /\ \A k \in (i + 1)..(j - 1) : A[k] + B[k] >= 1
                    THEN 1 ELSE 0
    IN  Trim([i \in 1..n |-> (A[i] + B[i] + carry(i)) % 2])

\* the bits in groups of ten, as numbers below 1024, the highest first
Limbs(b) ==
    LET n == (Len(b) + 9) \div 10
        padded == Zeros(10 * n - Len(b)) \o b
    IN  [i \in 1..n |-> NatOf(SubSeq(padded, 10 * i - 9, 10 * i))]

\* the bits of a sequence of such groups
BitsOfLimbs(l) ==
    Trim([i \in 1..(10 * Len(l)) |->
             (l[((i - 1) \div 10) + 1] \div (2^(9 - ((i - 1) % 10)))) % 2])

\* the carry out of group i when the groups are multiplied by c
RECURSIVE TimesCarry(_, _, _)
TimesCarry(l, c, i) ==
    IF i > Len(l) THEN 0 ELSE (l[i] * c + TimesCarry(l, c, i + 1)) \div 1024

\* b * c, for c up to 1000
TimesBits(b, c) ==
    LET l == Limbs(b)
    IN  BitsOfLimbs(<<TimesCarry(l, c, 1)>>
                    \o [i \in 1..Len(l) |-> (l[i] * c + TimesCarry(l, c, i + 1)) % 1024])

\* the first i groups modulo k
RECURSIVE ModOfLimbs(_, _, _)
ModOfLimbs(l, k, i) ==
    IF i = 0 THEN 0 ELSE (ModOfLimbs(l, k, i - 1) * 1024 + l[i]) % k

\* b divided by k, for k up to 1000: quotient and remainder, by long
\* division
DivMod(b, k) ==
    LET l == Limbs(b)
    IN  [quot |-> BitsOfLimbs([i \in 1..Len(l) |->
                                  (ModOfLimbs(l, k, i - 1) * 1024 + l[i]) \div k]),
         rem |-> ModOfLimbs(l, k, Len(l))]

\* b (and a fraction that is not zero when inexact) rounded to 53 bits, ties
\* to even: b is about bits * 2^exp
RoundTo53(b, inexact) ==
    IF Len(b) <= 53 THEN [bits |-> b, exp |-> 0]
    ELSE LET top == SubSeq(b, 1, 53)
             rest == inexact \/ \E i \in 55..Len(b) : b[i] = 1
             up == b[54] = 1 /\ (rest \/ top[53] = 1)
         IN  [bits |-> IF up THEN SumBits(top, <<1>>) ELSE top, exp |-> Len(b) - 53]

RECURSIVE Pow10(_)
Pow10(d) == IF d = 0 THEN 1 ELSE 10 * Pow10(d - 1)

\* float('<n with a ". " before its last d digits>'): the double nearest to
\* n / 10^d
float(n, d) ==
    IF n = 0 THEN [bits |-> <<>>, exp |-> 0]
    ELSE LET dm == DivMod(BitsOf(n) \o Zeros(64), Pow10(d))
             r == RoundTo53(dm.quot, dm.rem # 0)
         IN  [bits |-> r.bits, exp |-> r.exp - 64]

\* x * c for a double x and a whole number c that is a double: the double
\* nearest to the product
FloatTimes(x, c) ==
    LET product == IF c > 1000 THEN TimesBits(TimesBits(x.bits, 1000), c \div 1000)
                   ELSE TimesBits(x.bits, c)
        r == RoundTo53(product, FALSE)
    IN  [bits |-> r.bits, exp |-> x.exp + r.exp]

\* int(x) of a double that is not negative: towards zero
int(x) ==
    IF x.exp >= 0 THEN NatOf(x.bits \o Zeros(x.exp))
    ELSE NatOf(SubSeq(x.bits, 1, Len(x.bits) + x.exp))

\* the texts of the model: a number up to MaxWhole, with or without a '.'
\* and up to MaxDecimals digits behind it, no suffix, 'K' or 'M', and with
\* or without spaces in it
NumberTexts ==
    {t \in [whole : 0..MaxWhole, dot : BOOLEAN,
            decimals : UNION {[1..k -> 0..9] : k \in 0..MaxDecimals},
            suffix : {"", "K", "M"}, spaces : BOOLEAN] :
        ~t.dot => t.decimals = <<>>}

\* line 149: text.replace(' ', '')
WithoutSpaces(text) == [text EXCEPT !.spaces = FALSE]

\* the digits of the text read as one whole number
RECURSIVE DigitsValue(_, _)
DigitsValue(whole, decimals) ==
    IF decimals = <<>> THEN whole
    ELSE DigitsValue(10 * whole + Head(decimals), Tail(decimals))

\* lines 149-150, 159: text.endswith('M'), text.endswith('K')
SuffixOf(text) == text.suffix

\* lines 151-152 and 160-161: int(float(text[:-1]) * factor)
Scaled(text, factor) ==
    int(FloatTimes(float(DigitsValue(text.whole, text.decimals), Len(text.decimals)),
                   factor))

\* lines 140-173: the pair returned, or the exception int(text) raises
parse_number_with_suffix(text) ==
    LET t == WithoutSpaces(text)
    IN  CASE SuffixOf(t) = "M" ->
                [value |-> Scaled(t, 1000000),
                 granularity |-> IF ~t.dot THEN 1000000
                                 ELSE Pow10(6 - Len(t.decimals))]
          [] SuffixOf(t) = "K" ->
                [value |-> Scaled(t, 1000),
                 granularity |-> IF ~t.dot THEN 1000
                                 ELSE Pow10(3 - Len(t.decimals))]
          [] OTHER ->
                IF t.dot THEN [raised |-> "ValueError"]
                ELSE [value |-> t.whole, granularity |-> 1]

VARIABLES
    seen_hashes,      \* DuplicateChecker.seen_hashes
    seen_configs,     \* DuplicateChecker.seen_configs
    kept,             \* history: how often this checker answered False for a link
    passed,           \* history: the links handed to is_duplicate so far
    call              \* the last call of the checker: operation, argument, return value

dvars == <<seen_hashes, seen_configs, kept, passed, call>>

VARIABLES
    retries,             \* Scraper._retries
    responseOkCallback,  \* whether _request was given a responseOkCallback
    rpc,                 \* where _request stands
    attempt,             \* the loop variable of _request
    errors,              \* the local list errors
    trace,               \* history: the sends and sleeps of this call, in order
    returned,            \* the response _request returned, if any
    exception,           \* the arguments of the exception _request raised, if any
    fatal                \* the lines logged with _logger.fatal

rvars == <<retries, responseOkCallback, rpc, attempt, errors, trace, returned,
           exception, fatal>>

VARIABLES
    feed,                     \* the channel: its pages, as the server answers
    max_posts,                \* the local max_posts of get_items
    gpc,                      \* where the generator get_items stands
    page,                     \* the page in response and soup
    idx,                      \* posts of this page the for loop has taken
    post_count,               \* the local post_count
    posts_yielded_this_page,  \* the local posts_yielded_this_page
    emitted,                  \* history: number of posts this call yielded
    last_post,                \* history: the post yielded last
    initial_page_response,    \* TelegramChannelScraper._initial_page_response
    requested                 \* history: the pages the last step requested (0: the channel page)

gvars == <<feed, max_posts, gpc, page, idx, post_count,
           posts_yielded_this_page, emitted, last_post,
           initial_page_response, requested>>

VARIABLES
    telegram_channels,  \* UnifiedChannelScraper.telegram_channels, as the server answers for each
    github_urls,        \* UnifiedChannelScraper.github_urls
    sa_pc,              \* where scrape_all_sources stands
    tasks,              \* the tasks asyncio.gather made of the coroutines
    ready,              \* the event loop's queue of tasks ready to run
    running,            \* the task the loop's thread is executing (0: none)
    finished            \* history: the tasks in the order they completed

avars == <<telegram_channels, github_urls, sa_pc, tasks, ready, running,
           finished>>

VARIABLES
    post_element,  \* the <a> elements of a post element, in document order
    outlinks,      \* the list _extract_outlinks returned
    opc            \* where the _extract_outlinks call stands

ovars == <<post_element, outlinks, opc>>

VARIABLES
    urls,        \* SimpleGitHubChannelScraper.urls, as the servers answer for each
    bpc,         \* where the coroutine SimpleGitHubChannelScraper.get_items stands
    url_index,   \* the position of the loop 'for url in self.urls'
    items,       \* the local list items: the positions of the URLs with content
    awaits,      \* history: the delays and requests of the coroutine, in order
    thread,      \* what holds the event loop's thread between two steps
    sibling      \* another task of the loop: ready, or where the coroutine stood when it ran

bvars == <<urls, bpc, url_index, items, awaits, thread, sibling>>

VARIABLES
    results,   \* what asyncio.gather returned to scrape_all_sources: one dictionary per source
    cpc,       \* where the lines behind the gather stand
    earlier    \* history: the results and the LinkSet of the run before this one

cvars == <<results, cpc, earlier>>

VARIABLES
    content,     \* post.content, the text handed to extract_links
    matched,     \* history: what pattern.findall returned in the last call, by protocol
    extracted,   \* the dictionary the last extract_links call returned
    found,       \* the local all_links of the caller
    posts_read,  \* the posts with this content the caller has read
    xpc          \* where the caller of extract_links stands

evars == <<content, matched, extracted, found, posts_read, xpc>>

VARIABLES
    run_immediately,  \* main's local run_immediately
    run_pc,           \* for every run of run_scraper: where it stands
    checker,          \* for every run: the seen sets of scraper.duplicate_checker
    gathered,         \* history: for every run, the links of its sources before deduplication
    run_links,        \* for every run: run_scraper's local links
    calls,            \* history: for every run, its calls of save_links,
                      \* export_for_testing and send_links, in order
    sent              \* history: for every run, what the scan endpoint answered
                      \* and what send_links returned or raised

uvars == <<run_immediately, run_pc, checker, gathered, run_links, calls, sent>>

VARIABLES
    number_text,      \* _parse_number_with_suffix's parameter text
    number_pc,        \* where the call stands: "call", "returned" or "raised"
    number_result     \* history: the (value, granularity) it returned

nvars == <<number_text, number_pc, number_result>>

vars == <<dvars, rvars, gvars, avars, ovars, bvars, cvars, evars, uvars, nvars>>

\* no counter text is being parsed
NumberIdle ==
    /\ number_text = <<>>
    /\ number_pc = "idle"
    /\ number_result = <<>>

\* main has not been started
RunIdle ==
    /\ run_immediately = FALSE
    /\ run_pc = <<>>
    /\ checker = <<>>
    /\ gathered = <<>>
    /\ run_links = <<>>
    /\ calls = <<>>
    /\ sent = <<>>

\* no text is being read
ExtractIdle ==
    /\ content = <<>>
    /\ matched = <<>>
    /\ extracted = <<>>
    /\ found = <<>>
    /\ posts_read = 0
    /\ xpc = "idle"

\* no result of a gather is being combined
CombineIdle ==
    /\ results = <<>>
    /\ cpc = "idle"
    /\ earlier = <<>>

\* no _extract_outlinks call is under way
OutlinksIdle ==
    /\ post_element = <<>>
    /\ outlinks = <<>>
    /\ opc = "idle"

\* no SimpleGitHubChannelScraper.get_items coroutine is under way
BatchIdle ==
    /\ urls = <<>>
    /\ bpc = "idle"
    /\ url_index = 0
    /\ items = <<>>
    /\ awaits = <<>>
    /\ thread = "loop"
    /\ sibling = "none"

\* no scrape_all_sources call is under way
GatherIdle ==
    /\ telegram_channels = <<>>
    /\ github_urls = <<>>
    /\ sa_pc = "idle"
    /\ tasks = <<>>
    /\ ready = <<>>
    /\ running = 0
    /\ finished = <<>>

\* no get_items call is under way
PagerIdle ==
    /\ feed = <<>>
    /\ max_posts = 0
    /\ gpc = "idle"
    /\ page = 0
    /\ idx = 0
    /\ post_count = 0
    /\ posts_yielded_this_page = 0
    /\ emitted = 0
    /\ last_post = <<>>
    /\ initial_page_response = "None"
    /\ requested = <<>>

\* no _request call is under way
RequestIdle ==
    /\ retries = 0
    /\ responseOkCallback = FALSE
    /\ rpc = "idle"
    /\ attempt = 0
    /\ errors = <<>>
    /\ trace = <<>>
    /\ returned = <<>>
    /\ exception = <<>>
    /\ fatal = <<>>

\* no checker is in use
DedupIdle ==
    /\ seen_hashes = {}
    /\ seen_configs = {}
    /\ kept = <<>>
    /\ passed = {}
    /\ call = [op |-> "none"]

\* normalize_link and extract_config_signature, tabulated once over the links
\* of the model
normalized == [link \in DedupLinks |-> normalize_link(link)]

config_sig == [link \in DedupLinks |-> extract_config_signature(link)]

\* lines 57-58: the locals normalized and config_sig of is_duplicate(link)
normalized_of(link) ==
    IF link \in DedupLinks THEN normalized[link] ELSE normalize_link(link)

\* the signature as if extract_config_signature always took its fallback
config_sig_of_fallback(link) == normalize_link(link)

config_sig_of(link) ==
    IF link \in DedupLinks THEN config_sig[link]
    ELSE extract_config_signature(link)

\* a test that every link fails
Seen_always(link, hashes, configs) == TRUE

\* the test with 'and' for 'or'
Seen_both(link, hashes, configs) ==
    /\ normalized_of(link) \in hashes
    /\ config_sig_of(link) \in configs

\* the test on the text alone
Seen_text_only(link, hashes, configs) == normalized_of(link) \in hashes

\* the test of is_duplicate against given seen sets
Seen(link, hashes, configs) ==
    \/ normalized_of(link) \in hashes
    \/ config_sig_of(link) \in configs

\* DuplicateChecker(): a new checker, with no history, replaces the one in use
DuplicateChecker_init ==
    /\ seen_hashes # {}
    /\ seen_hashes' = {}
    /\ seen_configs' = {}
    /\ kept' = [l \in DedupLinks |-> 0]
    /\ passed' = {}
    /\ call' = [op |-> "DuplicateChecker", last |-> call]
    /\ UNCHANGED <<rvars, gvars, avars, ovars, bvars, cvars, evars, uvars, nvars>>

\* is_duplicate recording the link before it answers
is_duplicate_recording(link) ==
    LET dup == Seen(link, seen_hashes, seen_configs)
    IN  /\ seen_hashes' = seen_hashes \cup {normalized_of(link)}
        /\ seen_configs' = seen_configs \cup {config_sig_of(link)}
        /\ kept' = IF dup THEN kept ELSE [kept EXCEPT ![link] = @ + 1]
        /\ call' = [op |-> "is_duplicate", arg |-> link, ret |-> dup]
        /\ UNCHANGED <<rvars, gvars, avars, ovars, bvars, cvars, evars, uvars, nvars>>

\* lines 55-67
is_duplicate(link) ==
    LET dup == Seen(link, seen_hashes, seen_configs)
    IN  /\ seen_hashes' = IF dup THEN seen_hashes ELSE seen_hashes \cup {normalized_of(link)}
        /\ seen_configs' = IF dup THEN seen_configs ELSE seen_configs \cup {config_sig_of(link)}
        /\ kept' = IF dup THEN kept ELSE [kept EXCEPT ![link] = @ + 1]
        /\ call' = [op |-> "is_duplicate", arg |-> link, ret |-> dup]
        /\ UNCHANGED <<rvars, gvars, avars, ovars, bvars, cvars, evars, uvars, nvars>>

\* links.items() flattened: the (protocol, link) pairs in processing order
RECURSIVE Flatten(_, _)
Flatten(links, ps) ==
    IF ps = <<>> THEN <<>>
    ELSE [i \in 1..Len(links[Head(ps)]) |-> <<Head(ps), links[Head(ps)][i]>>]
            \o Flatten(links, Tail(ps))

\* the loop with the test inverted: 'if self.is_duplicate(link)'
RECURSIVE DedupLoop_inverted(_, _)
DedupLoop_inverted(pairs, st) ==
    IF pairs = <<>> THEN st
    ELSE LET protocol == Head(pairs)[1]
             link == Head(pairs)[2]
             dup == Seen(link, st.seen_hashes, st.seen_configs)
             rec == IF dup THEN st
                    ELSE [st EXCEPT !.seen_hashes = @ \cup {normalized_of(link)},
                                    !.seen_configs = @ \cup {config_sig_of(link)},
                                    !.kept[link] = @ + 1]
         IN  DedupLoop_inverted(Tail(pairs),
                IF dup
                THEN [rec EXCEPT !.deduplicated[protocol] = Append(@, link)]
                ELSE [rec EXCEPT !.duplicate_count = @ + 1])

\* the loop without 'duplicate_count += 1'
RECURSIVE DedupLoop_uncounted(_, _)
DedupLoop_uncounted(pairs, st) ==
    IF pairs = <<>> THEN st
    ELSE LET protocol == Head(pairs)[1]
             link == Head(pairs)[2]
             dup == Seen(link, st.seen_hashes, st.seen_configs)
         IN  DedupLoop_uncounted(Tail(pairs),
                IF dup
                THEN st
                ELSE [st EXCEPT
                        !.seen_hashes = @ \cup {normalized_of(link)},
                        !.seen_configs = @ \cup {config_sig_of(link)},
                        !.deduplicated[protocol] = Append(@, link),
                        !.kept[link] = @ + 1])

\* the loop of deduplicate_links, one is_duplicate call per pair
RECURSIVE DedupLoop(_, _)
DedupLoop(pairs, st) ==
    IF pairs = <<>> THEN st
    ELSE LET protocol == Head(pairs)[1]
             link == Head(pairs)[2]
             dup == Seen(link, st.seen_hashes, st.seen_configs)
         IN  DedupLoop(Tail(pairs),
                IF dup
                THEN [st EXCEPT !.duplicate_count = @ + 1]
                ELSE [st EXCEPT
                        !.seen_hashes = @ \cup {normalized_of(link)},
                        !.seen_configs = @ \cup {config_sig_of(link)},
                        !.deduplicated[protocol] = Append(@, link),
                        !.kept[link] = @ + 1])

\* deduplicate_links returning the links it was given
deduplicate_none(links) ==
    /\ UNCHANGED <<seen_hashes, seen_configs, kept>>
    /\ call' = [op |-> "deduplicate_links", arg |-> links,
                ret |-> links, duplicate_count |-> 0]

\* lines 69-82: what deduplicate_links does to the checker, and what it
\* returns
deduplicate(links) ==
    LET st == DedupLoop(Flatten(links, ProtocolOrder),
                        [seen_hashes |-> seen_hashes, seen_configs |-> seen_configs,
                         deduplicated |-> EmptyLinks, duplicate_count |-> 0,
                         kept |-> kept])
    IN  /\ seen_hashes' = st.seen_hashes
        /\ seen_configs' = st.seen_configs
        /\ kept' = st.kept
        /\ call' = [op |-> "deduplicate_links", arg |-> links,
                    ret |-> st.deduplicated, duplicate_count |-> st.duplicate_count]

\* a deduplicate_links call on the checker
deduplicate_links(links) ==
    /\ deduplicate(links)
    /\ UNCHANGED <<rvars, gvars, avars, ovars, bvars, cvars, evars, uvars, nvars>>

InitDedup ==
    /\ seen_hashes = {}
    /\ seen_configs = {}
    /\ kept = [l \in DedupLinks |-> 0]
    /\ passed = {}
    /\ call = [op |-> "none"]
    /\ RequestIdle
    /\ PagerIdle
    /\ GatherIdle
    /\ OutlinksIdle
    /\ BatchIdle
    /\ CombineIdle
    /\ RunIdle
    /\ NumberIdle
    /\ ExtractIdle

\* the last call made on any checker: construction keeps it in call.last
LastCall == IF call.op = "DuplicateChecker" THEN call.last ELSE call

\* a scraper run and its callers: batches, single checks, a new checker, and
\* a second pass over the dictionary the last pass returned
NextDedup ==
    \/ DuplicateChecker_init
    \/ \E link \in DedupLinks : is_duplicate(link) /\ UNCHANGED passed
    \/ \E links \in BatchInputs : deduplicate_links(links) /\ UNCHANGED passed
    \/ /\ LastCall.op = "deduplicate_links"
       /\ deduplicate_links(LastCall.ret)
       /\ UNCHANGED passed

SpecDedup == InitDedup /\ [][NextDedup]_vars

\* passes of deduplicate_links over whole dictionaries, on one checker and,
\* after a new one was made, on the next
NextPass ==
    \/ DuplicateChecker_init
    \/ \E links \in PassInputs : deduplicate_links(links) /\ UNCHANGED passed

SpecPass == InitDedup /\ [][NextPass]_vars

\* single checks on one checker, of links of every shape
NextOdd ==
    \/ DuplicateChecker_init
    \/ \E link \in OddLinks \cup {S1, L1, R1} : is_duplicate(link) /\ UNCHANGED passed

SpecOdd == InitDedup /\ [][NextOdd]_vars

\* single checks on one checker, with the history of every link handed in
NextSeen ==
    \/ DuplicateChecker_init
    \/ \E link \in DedupLinks : is_duplicate(link) /\ passed' = passed \cup {link}

SpecSeen == InitDedup /\ [][NextSeen]_vars

(***************************************************************************)
(* Properties of the duplicate checker.                                    *)
(***************************************************************************)
\* the links this checker has kept
Kept == {l \in DedupLinks : kept[l] > 0}

\* a and b collide: same normalized text, or same configuration signature
Collide(a, b) ==
    \/ normalize_link(a) = normalize_link(b)
    \/ extract_config_signature(a) = extract_config_signature(b)

\* C1: whatever calls were made on a checker, no link was kept twice and no
\* two kept links share the normalized text or the configuration signature
C1_KeptCollisionFree ==
    /\ \A a \in DedupLinks : kept[a] <= 1
    /\ \A a, b \in Kept : a # b => ~Collide(a, b)

\* C1 witness: links of three protocols are kept after a pass that removed
\* a duplicate
C1_Witness ==
    /\ call.op = "deduplicate_links"
    /\ call.duplicate_count > 0
    /\ {VA, S1, S3} \subseteq Kept
    /\ Kept \cap {L1, T1} # {}

\* C2 as claimed: is_duplicate answers True exactly when the text or the
\* signature of its link equals that of a link handed to is_duplicate
\* earlier on this checker, kept or rejected
C2_AnyEarlierLink ==
    [][call'.op = "is_duplicate" =>
          (call'.ret <=> \E x \in passed : Collide(x, call'.arg))]_vars

\* C2 amended: is_duplicate answers True exactly when the text or the
\* signature of its link equals that of a link this checker kept earlier
C2_EarlierKeptLink ==
    [][call'.op = "is_duplicate" =>
          (call'.ret <=> \E x \in Kept : Collide(x, call'.arg))]_vars

\* C2 witness: S3 was answered False although S2, which has its signature,
\* was handed in (and rejected) before
C2_Witness ==
    /\ call.op = "is_duplicate"
    /\ call.arg = S3
    /\ call.ret = FALSE
    /\ S2 \in passed
    /\ kept[S2] = 0

\* this step is a deduplicate_links call on the dictionary the last call,
\* a deduplicate_links call too, returned
SecondPass ==
    /\ LastCall.op = "deduplicate_links"
    /\ call'.op = "deduplicate_links"
    /\ call'.arg = LastCall.ret

\* C3 as claimed: a second pass returns its input and removes nothing,
\* on whatever checker it runs
C3_SecondPassAnyChecker ==
    [][SecondPass => call'.ret = call'.arg /\ call'.duplicate_count = 0]_vars

\* C3 amended: a second pass on a checker whose seen sets are empty returns
\* its input and removes nothing
C3_SecondPassNewChecker ==
    [][(SecondPass /\ seen_hashes = {} /\ seen_configs = {}) =>
          call'.ret = call'.arg /\ call'.duplicate_count = 0]_vars

\* C3 witness: a new checker has returned, unchanged, the two-protocol
\* dictionary an earlier pass had returned
C3_Witness ==
    /\ call.op = "deduplicate_links"
    /\ call.arg = call.ret
    /\ call.duplicate_count = 0
    /\ call.ret = [EmptyLinks EXCEPT !["vmess"] = <<VA>>, !["ss"] = <<S1>>]
    /\ Kept = {VA, S1}

\* C34: extract_config_signature and is_duplicate never raise for any link
\* string: a vmess body that is not decodable base64 JSON, an ss link without
\* '@', a vless/trojan link with an unparsable authority, and any link of an
\* unrecognized shape all get the canonicalized text as their signature, and
\* is_duplicate answers True or False for them and records that signature.
C34_FallbackSignature ==
    /\ \A link \in OddLinks \cup {R1} :
          extract_config_signature(link) = normalize_link(link)
    /\ call.op = "is_duplicate" =>
          /\ call.ret \in BOOLEAN
          /\ (call.arg \in OddLinks /\ ~call.ret) =>
                /\ normalize_link(call.arg) \in seen_hashes
                /\ normalize_link(call.arg) \in seen_configs
          /\ \A config \in seen_configs : config = <<>> \/ config[1] # "raised"

\* C34 witness: the checker has answered for a link of every such shape and
\* holds the canonicalized text of each as a signature
C34_Witness ==
    /\ call.op = "is_duplicate"
    /\ {normalize_link(link) : link \in OddLinks \cup {R1}} \subseteq seen_configs

\* s can be had from t by leaving elements out
RECURSIVE IsSubsequence(_, _)
IsSubsequence(s, t) ==
    IF s = <<>> THEN TRUE
    ELSE IF t = <<>> THEN FALSE
    ELSE IF Head(s) = Head(t) THEN IsSubsequence(Tail(s), Tail(t))
    ELSE IsSubsequence(s, Tail(t))

\* the links of a dictionary in the order deduplicate_links processes them
Processed(links) ==
    LET pairs == Flatten(links, ProtocolOrder)
    IN  [i \in 1..Len(pairs) |-> pairs[i][2]]

\* the links processed before the first occurrence of link
ProcessedBefore(links, link) ==
    LET order == Processed(links)
        first == Min({i \in 1..Len(order) : order[i] = link})
    IN  {order[j] : j \in 1..(first - 1)}

\* what deduplicate_links returned is, per protocol, a subsequence of what it
\* was given, and what it kept and what it counted as removed add up to what
\* it was given
SubsequenceAndCount ==
    /\ \A p \in Protocols : IsSubsequence(call.ret[p], call.arg[p])
    /\ TotalLinks(call.ret) + call.duplicate_count = TotalLinks(call.arg)

\* C33 as claimed: deduplicate_links keeps, per protocol, a subsequence of its
\* input in input order; every kept link is the first of its duplicate class
\* to be processed, that is, no link processed before it, kept or removed,
\* has its text or its signature; kept and counted removals add up to the
\* number of input links.
C33_FirstOfClassProcessed ==
    call.op = "deduplicate_links" =>
        /\ SubsequenceAndCount
        /\ \A l \in AllMembers(call.ret) :
              \A x \in ProcessedBefore(call.arg, l) : ~Collide(x, l)

\* C33 amended: deduplicate_links keeps, per protocol, a subsequence of its
\* input in input order; every kept link is the first occurrence of that link
\* in the input and has neither the text nor the signature of a link the
\* checker kept before it, in this call or an earlier one (links it removed
\* do not count); every link it left out has the text or the signature of
\* a link kept before it; kept and counted removals add up to the number of
\* input links.
C33_FirstOfClassKept ==
    [][call'.op = "deduplicate_links" =>
          LET arg == call'.arg
              ret == call'.ret
              order == Processed(arg)
              keptBefore(i) == {order[j] : j \in {k \in 1..(i - 1) : order[k] \in AllMembers(ret)}}
              \* the occurrence at i is the one kept
              keptAt(i) == order[i] \in AllMembers(ret) /\ \A j \in 1..(i - 1) : order[j] # order[i]
          IN  /\ \A p \in Protocols : IsSubsequence(ret[p], arg[p])
              /\ TotalLinks(ret) + call'.duplicate_count = TotalLinks(arg)
              /\ \A i \in 1..Len(order) :
                    keptAt(i) <=>
                        /\ ~Seen(order[i], seen_hashes, seen_configs)
                        /\ \A x \in keptBefore(i) :
                              \/ x = order[i]
                              \/ /\ normalized_of(x) # normalized_of(order[i])
                                 /\ config_sig_of(x) # config_sig_of(order[i])
                        /\ \A j \in 1..(i - 1) : order[j] # order[i]]_vars

\* C33 witness: of S1, S2, S3 handed to a new checker in this order, S2 was
\* removed for the text of S1 and S3 was kept, although S2 has its signature
C33_Witness ==
    /\ call.op = "deduplicate_links"
    /\ call.arg = [EmptyLinks EXCEPT !["ss"] = <<S1, S2, S3>>]
    /\ call.ret = [EmptyLinks EXCEPT !["ss"] = <<S1, S3>>]
    /\ call.duplicate_count = 1

\* what a link configures: the server, port, id, network and type of a vmess
\* link, and of any other link its text up to the fragment, scheme and
\* credentials included, upper and lower case apart
Configuration(link) ==
    IF StartsWith(link, Prefix("vmess")) /\ Decodable(Drop(link, 2))
    THEN LET config == VmessConfigs[link[3]]
         IN  <<config.add, config.port, config.id, config.net, config.type>>
    ELSE SplitFirst(link, "#")

\* C36 as claimed: deduplicate_links on a new checker never removes a link
\* whose configuration differs from that of every link kept before it: links
\* with different credentials on the same host:port, or with base64 bodies
\* that differ only in letter case, are both kept.
C36_DifferentConfigurationKept ==
    [][(call'.op = "deduplicate_links" /\ seen_hashes = {} /\ seen_configs = {}) =>
          LET order == Processed(call'.arg)
              K == AllMembers(call'.ret)
          IN  \A i \in 1..Len(order) :
                  (\A j \in 1..(i - 1) :
                      order[j] \in K => Configuration(order[j]) # Configuration(order[i]))
                      => order[i] \in K]_vars

\* C36 amended: deduplicate_links removes a link only when its normalized
\* (lower-cased) text or its signature is that of a link kept before it; the
\* signature of a vless or trojan link is its host:port alone, so of links
\* with different credentials on one host:port, and of links whose text
\* differs only in letter case, the first alone is kept.
C36_RemovedForTextOrSignature ==
    [][call'.op = "deduplicate_links" =>
          LET order == Processed(call'.arg)
              K == AllMembers(call'.ret)
          IN  \A i \in 1..Len(order) :
                  order[i] \notin K =>
                      \/ normalized_of(order[i]) \in seen_hashes
                      \/ config_sig_of(order[i]) \in seen_configs
                      \/ \E j \in 1..(i - 1) :
                            /\ order[j] \in K
                            /\ \/ normalized_of(order[j]) = normalized_of(order[i])
                               \/ config_sig_of(order[j]) = config_sig_of(order[i])]_vars

\* C36 witness: a new checker was handed two vless links with different ids
\* and a trojan link, all on h.io:443, and kept the first vless link alone
C36_Witness ==
    /\ call.op = "deduplicate_links"
    /\ call.arg = [EmptyLinks EXCEPT !["vless"] = <<L1, L2>>, !["trojan"] = <<T1>>]
    /\ call.ret = [EmptyLinks EXCEPT !["vless"] = <<L1>>]
    /\ call.duplicate_count = 2
    /\ seen_configs = {<<"h.io", ":", "443">>}
    /\ Cardinality({Configuration(L1), Configuration(L2), Configuration(T1)}) = 3

\* C37: an is_duplicate call that returns True leaves seen_hashes and
\* seen_configs unchanged; a call that returns False adds exactly the link's
\* normalized text to seen_hashes and exactly its signature to seen_configs;
\* no operation on a checker ever removes an element from either set.
C37_SeenSetsFrame ==
    [][/\ call'.op = "is_duplicate" =>
             IF call'.ret
             THEN seen_hashes' = seen_hashes /\ seen_configs' = seen_configs
             ELSE /\ seen_hashes' = seen_hashes \cup {normalize_link(call'.arg)}
                  /\ seen_configs' = seen_configs \cup {extract_config_signature(call'.arg)}
       /\ call'.op # "DuplicateChecker" =>
             seen_hashes \subseteq seen_hashes' /\ seen_configs \subseteq seen_configs']_vars

\* C37 witness: S2 was answered True for the text of S1, and the sets hold
\* what S1 left in them: the signature of S2 is not there
C37_Witness ==
    /\ call.op = "is_duplicate"
    /\ call.arg = S2
    /\ call.ret = TRUE
    /\ seen_hashes = {normalize_link(S1)}
    /\ seen_configs = {extract_config_signature(S1)}
    /\ extract_config_signature(S2) \notin seen_configs

\* C40 as claimed: normalize_link is idempotent: for the link of every
\* is_duplicate call, also one with more than one '#', normalizing its
\* normalized text again gives the same text.
C40_NormalizeIdempotent ==
    call.op = "is_duplicate" =>
        normalize_link(normalize_link(call.arg)) = normalize_link(call.arg)

\* C40 for links with at most one '#'
C40_IdempotentUpToOneFragment ==
    (call.op = "is_duplicate" /\ Cardinality(Positions(call.arg, "#")) <= 1) =>
        normalize_link(normalize_link(call.arg)) = normalize_link(call.arg)

(***************************************************************************)
(* Scraper._request (src/base.py).                                         *)
(***************************************************************************)
\* the status codes of the responses of the model
StatusCodes == {200, 404}

\* what a responseOkCallback answers: (success, msg), msg empty or a text
Verdicts == {[success |-> ok, msg |-> m] : ok \in BOOLEAN, m \in {"", "unexpected body"}}

\* without a callback: success, msg = (True, None)
NoVerdict == [success |-> TRUE, msg |-> ""]

\* the callback accepting every response with status 200
CallbackResult_status(response, verdict) ==
    [success |-> response.status_code = 200, msg |-> verdict.msg]

\* lines 376-381: the verdict on a received response
CallbackResult(response, verdict) ==
    IF responseOkCallback THEN verdict ELSE NoVerdict

\* errors.append(msg) without 'if msg'
ErrorsAfter_always(msg) == Append(errors, msg)

\* lines 378-379
ErrorsAfter(msg) == IF msg # "" THEN Append(errors, msg) ELSE errors

\* returning only responses that came without a message
AfterResponse_msg(success, msg) ==
    IF success /\ msg = "" THEN "returned" ELSE "failed"

\* lines 385-391: return the response, or go on to the end of the loop body
AfterResponse(success, msg) == IF success THEN "returned" ELSE "failed"

\* line 395
sleep_time(a) == 2^a

\* sleeping after every attempt
Sleeps_always(a) == TRUE

\* line 394
Sleeps(a) == a < retries

\* lines 393-397: the end of the loop body
Backoff(a) ==
    IF Sleeps(a)
    THEN Append(trace, [kind |-> "sleep", seconds |-> sleep_time(a)])
    ELSE trace

\* ", ".join(errors)
RECURSIVE Join(_)
Join(list) ==
    IF list = <<>> THEN <<>>
    ELSE IF Len(list) = 1 THEN list
    ELSE <<Head(list), ", ">> \o Join(Tail(list))

\* line 400: the message of the terminal error
GivingUp == <<ToString(retries + 1), " requests to ", "url", " failed, giving up.">>

\* a caller calls _request, with or without a responseOkCallback
request(callback) ==
    /\ rpc = "idle"
    /\ responseOkCallback' = callback
    /\ rpc' = "send"
    /\ attempt' = 0
    /\ errors' = <<>>
    /\ UNCHANGED <<retries, trace, returned, exception, fatal, dvars, gvars, avars, ovars, bvars, cvars, evars, uvars, nvars>>

\* session.send raises a RequestException
send_raises ==
    /\ rpc = "send"
    /\ errors' = Append(errors, "ConnectionError()")
    /\ trace' = Append(trace, [kind |-> "send", attempt |-> attempt,
                               outcome |-> "exception"])
    /\ rpc' = "failed"
    /\ UNCHANGED <<retries, responseOkCallback, attempt, returned, exception,
                   fatal, dvars, gvars, avars, ovars, bvars, cvars, evars, uvars, nvars>>

\* session.send returns a response, which the callback, if any, judges
send_responds(status, verdict) ==
    /\ rpc = "send"
    /\ LET response == [attempt |-> attempt, status_code |-> status]
           result == CallbackResult(response, verdict)
       IN  /\ errors' = ErrorsAfter(result.msg)
           /\ trace' = Append(trace, [kind |-> "send", attempt |-> attempt,
                                      outcome |-> "response",
                                      response |-> response, verdict |-> verdict])
           /\ rpc' = AfterResponse(result.success, result.msg)
           /\ returned' = IF rpc' = "returned" THEN <<response>> ELSE returned
    /\ UNCHANGED <<retries, responseOkCallback, attempt, exception, fatal, dvars, gvars, avars, ovars, bvars, cvars, evars, uvars, nvars>>

\* the end of a loop body with iterations left: back off, then the next attempt
next_attempt ==
    /\ rpc = "failed"
    /\ attempt + 1 < retries + 1
    /\ trace' = Backoff(attempt)
    /\ attempt' = attempt + 1
    /\ rpc' = "send"
    /\ UNCHANGED <<retries, responseOkCallback, errors, returned, exception,
                   fatal, dvars, gvars, avars, ovars, bvars, cvars, evars, uvars, nvars>>

\* the end of the last loop body: log, and raise ScraperException(msg)
give_up ==
    /\ rpc = "failed"
    /\ ~(attempt + 1 < retries + 1)
    /\ trace' = Backoff(attempt)
    /\ fatal' = <<GivingUp, <<"Errors: ">> \o Join(errors)>>
    /\ exception' = <<GivingUp>>
    /\ rpc' = "raised"
    /\ UNCHANGED <<retries, responseOkCallback, attempt, errors, returned, dvars, gvars, avars, ovars, bvars, cvars, evars, uvars, nvars>>

\* Scraper(retries=r), before its first request
InitRequest ==
    /\ DedupIdle
    /\ PagerIdle
    /\ GatherIdle
    /\ OutlinksIdle
    /\ BatchIdle
    /\ CombineIdle
    /\ RunIdle
    /\ NumberIdle
    /\ ExtractIdle
    /\ retries \in 0..MaxRetries
    /\ responseOkCallback = FALSE
    /\ rpc = "idle"
    /\ attempt = 0
    /\ errors = <<>>
    /\ trace = <<>>
    /\ returned = <<>>
    /\ exception = <<>>
    /\ fatal = <<>>

NextRequest ==
    \/ \E callback \in BOOLEAN : request(callback)
    \/ send_raises
    \/ \E status \in StatusCodes :
         \E verdict \in (IF responseOkCallback THEN Verdicts ELSE {NoVerdict}) :
            send_responds(status, verdict)
    \/ next_attempt
    \/ give_up

SpecRequest == InitRequest /\ [][NextRequest]_vars

(***************************************************************************)
(* Properties of _request.                                                 *)
(***************************************************************************)
IsSend(e) == e.kind = "send"

IsSleep(e) == e.kind = "sleep"

\* the attempt got a response and nothing rejected it
Accepted(e) ==
    /\ IsSend(e)
    /\ e.outcome = "response"
    /\ (responseOkCallback => e.verdict.success)

\* the attempt got a response and the callback rejected it
Rejected(e) ==
    /\ IsSend(e)
    /\ e.outcome = "response"
    /\ responseOkCallback
    /\ ~e.verdict.success

\* the delays slept so far, in order
Delays == LET sleeps == SelectSeq(trace, IsSleep)
          IN  [i \in 1..Len(sleeps) |-> sleeps[i].seconds]

\* C4: a call sends at most retries+1 times; when all attempts failed it has
\* slept retries times, for 1, 2, 4, ... seconds in this order; and no sleep
\* ever follows the attempt numbered retries
C4_RetryBound ==
    /\ Len(SelectSeq(trace, IsSend)) <= retries + 1
    /\ rpc = "raised" =>
          /\ Len(SelectSeq(trace, IsSend)) = retries + 1
          /\ Delays = [i \in 1..retries |-> 2^(i - 1)]
    /\ \A i, j \in DOMAIN trace :
          (i < j /\ IsSend(trace[i]) /\ trace[i].attempt = retries) =>
             ~IsSleep(trace[j])

\* C4 witness: with retries = 3 all four attempts failed, after delays 1, 2, 4
C4_Witness ==
    /\ rpc = "raised"
    /\ retries = 3
    /\ Delays = <<1, 2, 4>>
    /\ trace[Len(trace)].kind = "send"

\* C5: the response returned is the one of the last attempt and no callback
\* rejected it; a rejected response, whatever its status, is never returned,
\* leaves the call in the failed branch, and is followed by a backoff and a
\* further attempt while attempts remain
C5_RejectedNeverReturned ==
    /\ rpc = "returned" =>
          /\ trace # <<>>
          /\ Accepted(trace[Len(trace)])
          /\ returned = <<trace[Len(trace)].response>>
    /\ \A i \in DOMAIN trace :
          Rejected(trace[i]) =>
             /\ returned # <<trace[i].response>>
             /\ i = Len(trace) =>
                   \/ rpc = "failed"
                   \/ rpc = "raised" /\ trace[i].attempt = retries
             /\ i < Len(trace) =>
                   /\ trace[i].attempt < retries
                   /\ IsSleep(trace[i + 1])
                   /\ i + 1 = Len(trace) => rpc = "send"
                   /\ i + 1 < Len(trace) =>
                         /\ IsSend(trace[i + 2])
                         /\ trace[i + 2].attempt = trace[i].attempt + 1

\* C5 witness: a response with status 200 was rejected, a later one returned
C5_Witness ==
    /\ rpc = "returned"
    /\ \E i \in DOMAIN trace :
          Rejected(trace[i]) /\ trace[i].response.status_code = 200

\* C6: an accepted response is the last event of the call: it is returned,
\* and neither a sleep nor a send follows it
C6_AcceptedEndsRequest ==
    \A i \in DOMAIN trace :
        Accepted(trace[i]) =>
           /\ i = Len(trace)
           /\ rpc = "returned"
           /\ returned = <<trace[i].response>>

\* C6 witness: the second attempt of four was accepted, with a message, and
\* ended the call
C6_Witness ==
    /\ rpc = "returned"
    /\ retries = 3
    /\ attempt = 1
    /\ Len(trace) = 3
    /\ trace[3].verdict.msg # ""

\* the reason an attempt leaves in errors, if any
Reason(e) ==
    IF e.outcome = "exception" THEN <<"ConnectionError()">>
    ELSE IF responseOkCallback /\ e.verdict.msg # "" THEN <<e.verdict.msg>>
    ELSE <<>>

RECURSIVE Reasons(_)
Reasons(events) ==
    IF events = <<>> THEN <<>>
    ELSE (IF IsSend(Head(events)) THEN Reason(Head(events)) ELSE <<>>)
            \o Reasons(Tail(events))

\* C7 as claimed: when all attempts failed, the error raised carries the
\* list of reasons, which has one reason for each of the retries+1 attempts
C7_ErrorCarriesReasons ==
    rpc = "raised" =>
       /\ Len(errors) = retries + 1
       /\ \E i \in DOMAIN exception : exception[i] = errors

\* C7 amended: when all attempts failed, the error raised carries the one
\* message 'N requests to <url> failed, giving up.' with N = retries+1; the
\* reasons are logged, one for each transport failure and for each rejection
\* that came with a message
C7_ErrorCarriesMessage ==
    rpc = "raised" =>
       /\ Len(SelectSeq(trace, IsSend)) = retries + 1
       /\ \A i \in DOMAIN trace : ~Accepted(trace[i])
       /\ exception = << <<ToString(retries + 1), " requests to ", "url",
                           " failed, giving up.">> >>
       /\ errors = Reasons(trace)
       /\ fatal = <<exception[1], <<"Errors: ">> \o Join(Reasons(trace))>>

\* C7 witness: three attempts failed, one of them rejected without a message,
\* and two reasons were logged
C7_Witness ==
    /\ rpc = "raised"
    /\ retries = 2
    /\ Len(errors) = 2
    /\ \E i \in DOMAIN trace : Rejected(trace[i]) /\ trace[i].verdict.msg = ""

(***************************************************************************)
(* TelegramChannelScraper.get_items (src/scrapper.py).                     *)
(***************************************************************************)
MAX_FETCH == 200

\* the values of the module attribute MAX_FETCH a run starts with: the one
\* shipped, and 0
MaxFetchValues == {0, MAX_FETCH}

Pages == 1..MaxPages

\* the feeds of the model.  Page 1 is https://t.me/s/<name>.  posts[p] is
\* the number of post elements on page p, more[p] the page the href of its
\* load-more anchor resolves to (0: no such anchor), public whether the URL
\* the first request resolved to contains '/s/', unreachable the page whose
\* fetch fails (0: none) and failure how it fails.
Feeds ==
    {f \in [posts : [Pages -> 0..MaxPostsPerPage],
            more : [Pages -> 0..MaxPages],
            public : BOOLEAN,
            unreachable : 0..MaxPages,
            failure : {"retries exhausted", "status 404"}] :
        f.unreachable = 0 => f.failure = "status 404"}

\* self._get(url) and the status test behind it: "ok", or how it fails
Fetch(p) == IF feed.unreachable = p THEN feed.failure ELSE "ok"

\* the for loop running through the page whatever the count
Breaks_never(count) == FALSE

\* lines 335-336
Breaks(count) == count >= max_posts

\* no test of the limit behind the for loop
ReachedLimit_never(count) == FALSE

\* lines 342-344
ReachedLimit(count) == count >= max_posts

\* line 331: the test of the while loop
WhileTest(count) == IF count < max_posts THEN "page" ELSE "done"

\* '/s/' found in every URL
PublicPostList_always(f) == TRUE

\* line 324: '/s/' in response.url
PublicPostList(f) == f.public

\* a cache test that finds no response
Cached_never(r) == FALSE

\* line 130: self._initial_page_response is not None
Cached(r) == r # "None"

\* lines 121-138: _initial_page: the requests it makes, how it ends, and
\* _initial_page_response behind it
initial_page ==
    IF Cached(initial_page_response)
    THEN [requests |-> <<>>, outcome |-> "ok", response |-> initial_page_response]
    ELSE [requests |-> <<1>>, outcome |-> Fetch(1),
          response |-> IF Fetch(1) = "ok" THEN "page 1" ELSE "None"]

\* the post elements taken in document order
reversed_posts_forward(n, i) == i + 1

\* line 268: reversed(posts): of the n post elements of the page, counted in
\* document order, the one the loop takes after i others
reversed_posts(n, i) == n - i

\* lines 321-331: the first next() on the generator
get_items_start ==
    /\ gpc = "start"
    /\ requested' = initial_page.requests
    /\ initial_page_response' = initial_page.response
    /\ IF initial_page.outcome # "ok" THEN
          /\ gpc' = "raised"
          /\ UNCHANGED <<page, idx, post_count, posts_yielded_this_page>>
       ELSE IF ~PublicPostList(feed) THEN
          /\ gpc' = "done"
          /\ page' = 1
          /\ UNCHANGED <<idx, post_count, posts_yielded_this_page>>
       ELSE
          /\ page' = 1
          /\ post_count' = 0
          /\ gpc' = WhileTest(0)
          /\ idx' = 0
          /\ posts_yielded_this_page' = 0
    /\ UNCHANGED <<feed, max_posts, emitted, last_post, dvars, rvars, avars, ovars, bvars, cvars, evars, uvars, nvars>>

\* lines 334-339: the for loop takes the next post of the page and yields it;
\* _soup_to_items goes through the post elements in reversed document order
yield_post ==
    /\ gpc = "page"
    /\ idx < feed.posts[page]
    /\ ~Breaks(post_count)
    /\ last_post' = [page |-> page,
                     element |-> reversed_posts(feed.posts[page], idx)]
    /\ emitted' = emitted + 1
    /\ post_count' = post_count + 1
    /\ posts_yielded_this_page' = posts_yielded_this_page + 1
    /\ idx' = idx + 1
    /\ requested' = <<>>
    /\ UNCHANGED <<feed, max_posts, gpc, page, initial_page_response,
                   dvars, rvars, avars, ovars, bvars, cvars, evars, uvars, nvars>>

\* lines 335-350: the for loop ends, by exhaustion or by break; then the
\* limit test and the search for the load-more anchor
end_of_page ==
    /\ gpc = "page"
    /\ idx = feed.posts[page] \/ Breaks(post_count)
    /\ gpc' = IF ReachedLimit(post_count) THEN "done"
              ELSE IF feed.more[page] = 0 THEN "done"
              ELSE "load_more"
    /\ requested' = <<>>
    /\ UNCHANGED <<feed, max_posts, page, idx, post_count,
                   posts_yielded_this_page, emitted, last_post,
                   initial_page_response, dvars, rvars, avars, ovars, bvars, cvars, evars, uvars, nvars>>

\* lines 352-359 and 331-332: fetch the next page, parse it, test the loop
load_next_page ==
    /\ gpc = "load_more"
    /\ requested' = <<feed.more[page]>>
    /\ IF Fetch(feed.more[page]) # "ok" THEN
          /\ gpc' = "raised"
          /\ UNCHANGED <<page, idx, posts_yielded_this_page>>
       ELSE
          /\ page' = feed.more[page]
          /\ gpc' = WhileTest(post_count)
          /\ idx' = 0
          /\ posts_yielded_this_page' = 0
    /\ UNCHANGED <<feed, max_posts, post_count, emitted, last_post,
                   initial_page_response, dvars, rvars, avars, ovars, bvars, cvars, evars, uvars, nvars>>

\* line 312: get_items called again on the same scraper object, the earlier
\* generator having ended; the new generator has its own locals
get_items ==
    /\ gpc \in {"done", "raised"}
    /\ gpc' = "start"
    /\ page' = 0
    /\ idx' = 0
    /\ post_count' = 0
    /\ posts_yielded_this_page' = 0
    /\ emitted' = 0
    /\ last_post' = <<>>
    /\ requested' = <<>>
    /\ UNCHANGED <<feed, max_posts, initial_page_response, dvars, rvars, avars, ovars, bvars, cvars, evars, uvars, nvars>>

\* line 373: https://t.me/<name>, the channel page, among the pages requested
ChannelPage == 0

\* lines 361-397: the entity lookup, made while no generator of the object
\* is running: it requests the channel page https://t.me/<name>, and when
\* that answers 200 it goes through _initial_page
get_entity(status) ==
    /\ gpc \in {"start", "done", "raised"}
    /\ IF status # 200 THEN
          /\ requested' = <<ChannelPage>>
          /\ UNCHANGED initial_page_response
       ELSE
          /\ requested' = <<ChannelPage>> \o initial_page.requests
          /\ initial_page_response' = initial_page.response
    /\ UNCHANGED <<feed, max_posts, gpc, page, idx, post_count,
                   posts_yielded_this_page, emitted, last_post,
                   dvars, rvars, avars, ovars, bvars, cvars, evars, uvars, nvars>>

\* scraper.get_items() on a new TelegramChannelScraper
InitPager ==
    /\ DedupIdle
    /\ RequestIdle
    /\ GatherIdle
    /\ OutlinksIdle
    /\ BatchIdle
    /\ CombineIdle
    /\ RunIdle
    /\ NumberIdle
    /\ ExtractIdle
    /\ feed \in Feeds
    /\ max_posts \in MaxFetchValues
    /\ gpc = "start"
    /\ page = 0
    /\ idx = 0
    /\ post_count = 0
    /\ posts_yielded_this_page = 0
    /\ emitted = 0
    /\ last_post = <<>>
    /\ initial_page_response = "None"
    /\ requested = <<>>

NextPager ==
    \/ get_items_start
    \/ yield_post
    \/ end_of_page
    \/ load_next_page
    \/ get_items
    \/ \E status \in StatusCodes : get_entity(status)

SpecPager == InitPager /\ [][NextPager]_vars

\* the consumer goes on taking items from the generator until it ends
SpecPagerFair == SpecPager /\ WF_vars(NextPager)

(***************************************************************************)
(* scrape_all_sources (src/main.py): one task per Telegram channel and one *)
(* for the GitHub URLs, run by asyncio.gather on the event loop's single   *)
(* thread; then the results are combined and deduplicated.  A step of a    *)
(* task runs from one point where its thread waits to the next.            *)
(***************************************************************************)
\* base.py:272: the retries a TelegramChannelScraper(channel) is made with
RetriesDefault == 3

\* how the server answers the requests for one page: the number of attempts
\* that end in a RequestException before a response comes, the status of
\* that response, and the links extract_links finds in the posts of the page,
\* in the order they are yielded
ChannelPages ==
    {pg \in [failures : {0, 1, RetriesDefault + 1},
             status : StatusCodes,
             links : {<<S1>>, <<S2>>}] :
        /\ pg.failures > RetriesDefault => pg.status = 200 /\ pg.links = <<S1>>
        /\ pg.status # 200 => pg.failures = 0 /\ pg.links = <<S1>>}

\* the page can be fetched
Reachable(pg) == pg.failures <= RetriesDefault /\ pg.status = 200

\* the channels of the model: one or two pages, the second reached through
\* the load-more anchor of the first
Channels ==
    {<<pg>> : pg \in ChannelPages}
        \cup {<<p1, p2>> : p1 \in {pg \in ChannelPages : Reachable(pg)},
                           p2 \in ChannelPages}

\* the raw-text URLs of the model
GithubUrls == {<<>>, <<"https://raw.githubusercontent.com/o/r/main/a.txt">>}

\* the dictionary extract_links returns for links found in that order
ByProtocol(links) ==
    [p \in Protocols |-> SelectSeq(links, LAMBDA l : l \in LinksOf(p))]

\* 'combined_links = result' for the extend loop
Extend_replace(all_links, links) == links

\* lines 135-136 and 198-199: extend every list by the list of its protocol
Extend(all_links, links) == [p \in Protocols |-> all_links[p] \o links[p]]

\* the except branch returning what was collected so far
OnException_partial(all_links) == all_links

\* lines 143-145: the except branch of scrape_telegram_channel
OnException(all_links) == EmptyLinks

\* the loop taking the task queued last
NextReady_last(queue) == queue[Len(queue)]

\* asyncio runs the ready tasks in the order gather (line 192) made them
NextReady(queue) == Head(queue)

\* returning as soon as one task is done
Settled_first(ts) == \E t \in DOMAIN ts : ts[t].state = "done"

\* line 192: asyncio.gather returns when every task is done
Settled(ts) == \A t \in DOMAIN ts : ts[t].state = "done"

\* the number of tasks: lines 186-190
TaskCount ==
    Len(telegram_channels) + (IF github_urls # <<>> THEN 1 ELSE 0)

\* lines 184-192: the coroutines are made into tasks, queued in list order,
\* and scrape_all_sources waits for gather
gather_start ==
    /\ sa_pc = "start"
    /\ sa_pc' = "gather"
    /\ tasks' = [t \in 1..TaskCount |->
                    [kind |-> IF t <= Len(telegram_channels) THEN "telegram"
                              ELSE "github",
                     state |-> "pending", page |-> 0, attempt |-> 0,
                     all_links |-> EmptyLinks, caught |-> FALSE,
                     result |-> EmptyLinks]]
    /\ ready' = [t \in 1..TaskCount |-> t]
    /\ UNCHANGED <<telegram_channels, github_urls, running, finished,
                   dvars, rvars, gvars, ovars, bvars, cvars, evars, uvars, nvars>>

\* the task leaves the thread with its result
Done(t, task, result, caught) ==
    /\ tasks' = [tasks EXCEPT ![t] = [task EXCEPT !.state = "done",
                                                  !.result = result,
                                                  !.caught = caught]]
    /\ running' = 0
    /\ finished' = Append(finished, t)

\* main.py:125-132, scrapper.py:321, 131, base.py:350: the loop starts the
\* task; it runs up to the send of the request for the first page
scrape_telegram_channel(t) ==
    /\ sa_pc = "gather"
    /\ running = 0
    /\ ready # <<>>
    /\ t = NextReady(ready)
    /\ tasks[t].kind = "telegram"
    /\ running' = t
    /\ ready' = SelectSeq(ready, LAMBDA u : u # t)
    /\ tasks' = [tasks EXCEPT ![t].state = "fetching", ![t].page = 1]
    /\ UNCHANGED <<telegram_channels, github_urls, sa_pc, finished,
                   dvars, rvars, gvars, ovars, bvars, cvars, evars, uvars, nvars>>

\* base.py:350-397, scrapper.py:132-133, 356-357, main.py:132-145: the send
\* returns.  A RequestException leads to time.sleep, or after the last
\* attempt to ScraperException; a response that is not 200 to
\* ScraperException; a page to its links in all_links and to the request for
\* the next page, or to the end of the task
fetch_returns(t) ==
    /\ running = t
    /\ tasks[t].state = "fetching"
    /\ LET task == tasks[t]
           pg == telegram_channels[t][task.page]
       IN  IF task.attempt < pg.failures THEN
              IF task.attempt < RetriesDefault THEN
                 /\ tasks' = [tasks EXCEPT ![t].state = "backoff"]
                 /\ UNCHANGED <<running, finished>>
              ELSE Done(t, task, OnException(task.all_links), TRUE)
           ELSE IF pg.status # 200 THEN
              Done(t, task, OnException(task.all_links), TRUE)
           ELSE
              LET all_links == Extend(task.all_links, ByProtocol(pg.links))
              IN  IF task.page < Len(telegram_channels[t]) THEN
                     /\ tasks' = [tasks EXCEPT ![t].all_links = all_links,
                                               ![t].page = task.page + 1,
                                               ![t].attempt = 0]
                     /\ UNCHANGED <<running, finished>>
                  ELSE Done(t, [task EXCEPT !.all_links = all_links],
                            all_links, FALSE)
    /\ UNCHANGED <<telegram_channels, github_urls, sa_pc, ready,
                   dvars, rvars, gvars, ovars, bvars, cvars, evars, uvars, nvars>>

\* base.py:393-397, 332, 350: time.sleep returns, the next attempt is sent
backoff_ends(t) ==
    /\ running = t
    /\ tasks[t].state = "backoff"
    /\ tasks' = [tasks EXCEPT ![t].state = "fetching",
                              ![t].attempt = tasks[t].attempt + 1]
    /\ UNCHANGED <<telegram_channels, github_urls, sa_pc, ready, running,
                   finished, dvars, rvars, gvars, ovars, bvars, cvars, evars, uvars, nvars>>

\* main.py:147-180: the loop starts the task of the GitHub URLs.  The module
\* scrapper has no attribute SimpleGitHubChannelScraper (line 152): the
\* AttributeError is caught in line 176 and the task returns the empty
\* dictionary, without having waited anywhere
scrape_github_urls(t) ==
    /\ sa_pc = "gather"
    /\ running = 0
    /\ ready # <<>>
    /\ t = NextReady(ready)
    /\ tasks[t].kind = "github"
    /\ ready' = SelectSeq(ready, LAMBDA u : u # t)
    /\ tasks' = [tasks EXCEPT ![t].state = "done", ![t].caught = TRUE,
                              ![t].result = EmptyLinks]
    /\ finished' = Append(finished, t)
    /\ UNCHANGED <<telegram_channels, github_urls, sa_pc, running,
                   dvars, rvars, gvars, ovars, bvars, cvars, evars, uvars, nvars>>

\* the loop leaving after the first result
CombineResults_first(rs, combined_links) ==
    IF rs = <<>> THEN combined_links
    ELSE Extend(combined_links, Head(rs))

\* lines 194-201: the results, in the order of the tasks list, extend
\* combined_links
RECURSIVE CombineResults(_, _)
CombineResults(rs, combined_links) ==
    IF rs = <<>> THEN combined_links
    ELSE CombineResults(Tail(rs), Extend(combined_links, Head(rs)))

\* lines 192-206: gather returns the results of the tasks in the order of
\* the tasks list; they are combined and deduplicated
gather_returns ==
    /\ sa_pc = "gather"
    /\ running = 0
    /\ Settled(tasks)
    /\ sa_pc' = "done"
    /\ deduplicate(CombineResults([t \in DOMAIN tasks |-> tasks[t].result],
                                  EmptyLinks))
    /\ UNCHANGED <<telegram_channels, github_urls, tasks, ready, running,
                   finished, passed, rvars, gvars, ovars, bvars, cvars, evars, uvars, nvars>>

\* lines 115-121 and 182: a new UnifiedChannelScraper, scrape_all_sources
\* called on it
InitGather ==
    /\ seen_hashes = {}
    /\ seen_configs = {}
    /\ kept = [l \in DedupLinks |-> 0]
    /\ passed = {}
    /\ call = [op |-> "none"]
    /\ RequestIdle
    /\ PagerIdle
    /\ OutlinksIdle
    /\ BatchIdle
    /\ CombineIdle
    /\ RunIdle
    /\ NumberIdle
    /\ ExtractIdle
    /\ telegram_channels \in SeqsUpTo(Channels, MaxChannels)
    /\ github_urls \in GithubUrls
    /\ sa_pc = "start"
    /\ tasks = <<>>
    /\ ready = <<>>
    /\ running = 0
    /\ finished = <<>>

NextGather ==
    \/ gather_start
    \/ \E t \in DOMAIN tasks : scrape_telegram_channel(t)
    \/ \E t \in DOMAIN tasks : fetch_returns(t)
    \/ \E t \in DOMAIN tasks : backoff_ends(t)
    \/ \E t \in DOMAIN tasks : scrape_github_urls(t)
    \/ gather_returns

SpecGather == InitGather /\ [][NextGather]_vars

(***************************************************************************)
(* _extract_outlinks (src/scrapper.py).  A URL is the sequence of its      *)
(* tokens: the scheme "https:", an authority "//t.me", the separator "/",  *)
(* a path segment, the query "?single".                                    *)
(***************************************************************************)
\* the decimal path segments of the model
DigitSegments == {"5", "6"}

\* line 276: the href of the date link of the post, https://t.me/chan/5
RawUrl == <<"https:", "//t.me", "/", "chan", "/", "5">>

\* the URL of the page the post is on, https://t.me/s/chan
PageUrl == <<"https:", "//t.me", "/", "s", "/", "chan">>

\* line 285: raw_url.replace('//t.me/', '//t.me/s/')
RECURSIVE replace_tme(_)
replace_tme(url) ==
    IF url = <<>> THEN <<>>
    ELSE IF Len(url) >= 2 /\ url[1] = "//t.me" /\ url[2] = "/"
    THEN <<"//t.me", "/", "s", "/">> \o replace_tme(SubSeq(url, 3, Len(url)))
    ELSE <<Head(url)>> \o replace_tme(Tail(url))

\* urllib.parse.urljoin(base, href) for an absolute URL and for a reference
\* that begins with "/": the reference replaces the path of the base
urljoin(base, href) ==
    IF href # <<>> /\ Head(href) = "https:" THEN href
    ELSE SubSeq(base, 1, 2) \o href

\* line 14: ^https://t\.me/[^/]+/\d+\?single$
SINGLE_MEDIA_LINK_PATTERN(href) ==
    /\ Len(href) = 7
    /\ href[1] = "https:"
    /\ href[2] = "//t.me"
    /\ href[3] = "/"
    /\ href[4] \notin {"/", "?single"}
    /\ href[5] = "/"
    /\ href[6] \in DigitSegments
    /\ href[7] = "?single"

\* the href attributes of the model: the post's raw and canonical URL,
\* another post and another site, absolute and as references relative to the
\* page, and a single-media link
Hrefs ==
    {RawUrl,
     replace_tme(RawUrl),
     <<"/", "chan", "/", "5">>,
     <<"/", "s", "/", "chan", "/", "5">>,
     <<"https:", "//t.me", "/", "chan", "/", "6">>,
     <<"/", "chan", "/", "6">>,
     <<"https:", "//ex.com", "/", "a">>,
     <<"https:", "//t.me", "/", "chan", "/", "5", "?single">>}

\* the <a> elements of the model: author is whether the parent element has
\* the class tgme_widget_message_user or tgme_widget_message_author
Anchors ==
    [href : Hrefs, author : {FALSE}]
        \cup [href : {RawUrl, <<"https:", "//ex.com", "/", "a">>},
              author : {TRUE}]

\* lines 232-253: the loop of _extract_outlinks
RECURSIVE OutlinksLoop(_, _, _, _, _)
OutlinksLoop(links, page_url, raw_url, canonical_url, out) ==
    IF links = <<>> THEN out
    ELSE LET link == Head(links)
             href == urljoin(page_url, link.href)
         IN  OutlinksLoop(Tail(links), page_url, raw_url, canonical_url,
                IF link.author THEN out
                ELSE IF link.href \in {raw_url, canonical_url} THEN out
                ELSE IF SINGLE_MEDIA_LINK_PATTERN(link.href) THEN out
                ELSE IF \E k \in DOMAIN out : out[k] = href THEN out
                ELSE Append(out, href))

\* lines 276, 285, 299: _soup_to_items calls _extract_outlinks for the post
extract_outlinks ==
    /\ opc = "start"
    /\ outlinks' = OutlinksLoop(post_element, PageUrl, RawUrl,
                                replace_tme(RawUrl), <<>>)
    /\ opc' = "done"
    /\ UNCHANGED <<post_element, dvars, rvars, gvars, avars, bvars, cvars, evars, uvars, nvars>>

InitOutlinks ==
    /\ DedupIdle
    /\ RequestIdle
    /\ PagerIdle
    /\ GatherIdle
    /\ BatchIdle
    /\ CombineIdle
    /\ RunIdle
    /\ NumberIdle
    /\ ExtractIdle
    /\ post_element \in SeqsUpTo(Anchors, MaxAnchors)
    /\ outlinks = <<>>
    /\ opc = "start"

NextOutlinks == extract_outlinks

SpecOutlinks == InitOutlinks /\ [][NextOutlinks]_vars

(***************************************************************************)
(* SimpleGitHubChannelScraper.get_items (src/extractor.py), a coroutine on *)
(* the event loop.  A step runs from one await that suspends to the next.  *)
(***************************************************************************)
\* how the server answers the request for a URL
UrlAnswers == {"200 text", "200 empty", "404", "500", "timeout"}

\* time.sleep: the coroutine keeps the thread while it waits
Suspend_blocking(task) == task

\* lines 219, 222: await asyncio.sleep(...) and the await of the response
\* suspend the coroutine; the thread goes back to the event loop
Suspend(task) == "loop"

\* lines 223-239, 255-265, 322-326: the URL counts among the items when the
\* response is 200 and its text is not empty
Content(answer) == answer = "200 text"

\* lines 319-321, 241-253, 216-219: the loop takes the URL at position i and
\* comes to the rate-limit delay of fetch_content; behind the last URL
\* get_items returns
NextUrl(i) ==
    IF i <= Len(urls) THEN
       /\ bpc' = "delay"
       /\ url_index' = i
       /\ awaits' = Append(awaits, <<"sleep", i>>)
       /\ thread' = Suspend("get_items")
    ELSE
       /\ bpc' = "done"
       /\ awaits' = awaits
       /\ thread' = "loop"
       /\ UNCHANGED url_index

\* lines 314-321: the coroutine starts
batch_start ==
    /\ bpc = "start"
    /\ thread = "loop"
    /\ NextUrl(1)
    /\ UNCHANGED <<urls, items, sibling, dvars, rvars, gvars, avars, ovars, cvars, evars, uvars, nvars>>

\* lines 219-222: the delay is over, the request is sent
delay_ends ==
    /\ bpc = "delay"
    /\ thread \in {"loop", "get_items"}
    /\ bpc' = "fetch"
    /\ awaits' = Append(awaits, <<"get", url_index>>)
    /\ thread' = Suspend("get_items")
    /\ UNCHANGED <<urls, url_index, items, sibling, dvars, rvars, gvars,
                   avars, ovars, cvars, evars, uvars, nvars>>

\* lines 222-239, 255-265, 321-328: the response or the error has come; the
\* coroutine runs on to the delay of the next URL or to its end
response_arrives ==
    /\ bpc = "fetch"
    /\ thread \in {"loop", "get_items"}
    /\ items' = IF Content(urls[url_index]) THEN Append(items, url_index)
                ELSE items
    /\ NextUrl(url_index + 1)
    /\ UNCHANGED <<urls, sibling, dvars, rvars, gvars, avars, ovars, cvars, evars, uvars, nvars>>

\* main.py:192: another task of the same loop, ready to run, gets the thread
\* when the loop has it
sibling_runs ==
    /\ sibling = "ready"
    /\ thread = "loop"
    /\ sibling' = bpc
    /\ UNCHANGED <<urls, bpc, url_index, items, awaits, thread, dvars, rvars,
                   gvars, avars, ovars, cvars, evars, uvars, nvars>>

\* lines 304-306: a SimpleGitHubChannelScraper made with the URLs, its
\* get_items scheduled on a loop that has another task ready
InitBatch ==
    /\ DedupIdle
    /\ RequestIdle
    /\ PagerIdle
    /\ GatherIdle
    /\ OutlinksIdle
    /\ CombineIdle
    /\ RunIdle
    /\ NumberIdle
    /\ ExtractIdle
    /\ urls \in SeqsUpTo(UrlAnswers, MaxUrls)
    /\ bpc = "start"
    /\ url_index = 0
    /\ items = <<>>
    /\ awaits = <<>>
    /\ thread = "loop"
    /\ sibling = "ready"

NextBatch ==
    \/ batch_start
    \/ delay_ends
    \/ response_arrives
    \/ sibling_runs

SpecBatch == InitBatch /\ [][NextBatch]_vars

(***************************************************************************)
(* The caller of extract_links (src/main.py): the posts of one channel,    *)
(* then the final deduplication.                                           *)
(***************************************************************************)
\* main.py:133-136: the caller reads a post with this content
extract_links ==
    /\ xpc \in {"start", "extracted"}
    /\ posts_read < MaxPostsPerPage
    /\ posts_read' = posts_read + 1
    /\ matched' = Matches(content)
    /\ extracted' = Validated(matched')
    /\ found' = Extend(found, extracted')
    /\ xpc' = "extracted"
    /\ UNCHANGED <<content, dvars, rvars, gvars, avars, ovars, bvars, cvars, uvars, nvars>>

\* main.py:141, 194-206: the source returns what it found, the one result is
\* combined and deduplicated
final_deduplication ==
    /\ xpc = "extracted"
    /\ xpc' = "deduplicated"
    /\ deduplicate(CombineResults(<<found>>, EmptyLinks))
    /\ UNCHANGED <<content, matched, extracted, found, posts_read, passed,
                   rvars, gvars, avars, ovars, bvars, cvars, uvars, nvars>>

\* lines 115-121 and 130: a new UnifiedChannelScraper reads a channel whose
\* posts have this content
InitExtract ==
    /\ seen_hashes = {}
    /\ seen_configs = {}
    /\ kept = [l \in DedupLinks |-> 0]
    /\ passed = {}
    /\ call = [op |-> "none"]
    /\ RequestIdle
    /\ PagerIdle
    /\ GatherIdle
    /\ OutlinksIdle
    /\ BatchIdle
    /\ CombineIdle
    /\ RunIdle
    /\ NumberIdle
    /\ content \in Texts
    /\ matched = EmptyLinks
    /\ extracted = EmptyLinks
    /\ found = EmptyLinks
    /\ posts_read = 0
    /\ xpc = "start"

NextExtract ==
    \/ extract_links
    \/ final_deduplication

SpecExtract == InitExtract /\ [][NextExtract]_vars

(***************************************************************************)
(* The lines of scrape_all_sources behind the gather (src/main.py), for    *)
(* two runs over the same sources listed in different orders.              *)
(***************************************************************************)
\* what one source returns: the links of its posts, by protocol (in the
\* model no source returns a link twice)
SourceResults ==
    {ByProtocol(ls) : ls \in {l \in SeqsUpTo({S1, S2, S3}, MaxBatch) :
                                \A i, j \in 1..Len(l) : l[i] = l[j] => i = j}}

\* the orders the results of n sources can come in
Orders(n) == {f \in [1..n -> 1..n] : \A i, j \in 1..n : f[i] = f[j] => i = j}

\* main.py:194-206: the results are combined in the order gather returned
\* them, and deduplicated by the checker of this UnifiedChannelScraper
combine ==
    /\ cpc = "gathered"
    /\ cpc' = "returned"
    /\ deduplicate(CombineResults(results, EmptyLinks))
    /\ UNCHANGED <<results, earlier, passed, rvars, gvars, avars, ovars, bvars, evars, uvars, nvars>>

\* main.py:257-266 and 115-121: another run, with a new UnifiedChannelScraper
\* and its new DuplicateChecker, over the same sources listed in the given
\* order; every source returns what it returned before
run_again(order) ==
    /\ cpc = "returned"
    /\ earlier = <<>>
    /\ earlier' = <<[results |-> results, links |-> call.ret]>>
    /\ results' = [i \in DOMAIN results |-> results[order[i]]]
    /\ cpc' = "gathered"
    /\ seen_hashes' = {}
    /\ seen_configs' = {}
    /\ kept' = [l \in DedupLinks |-> 0]
    /\ call' = [op |-> "DuplicateChecker", last |-> call]
    /\ UNCHANGED <<passed, rvars, gvars, avars, ovars, bvars, evars, uvars, nvars>>

\* lines 115-121 and 192: a new UnifiedChannelScraper whose gather returned
InitCombine ==
    /\ seen_hashes = {}
    /\ seen_configs = {}
    /\ kept = [l \in DedupLinks |-> 0]
    /\ passed = {}
    /\ call = [op |-> "none"]
    /\ RequestIdle
    /\ PagerIdle
    /\ GatherIdle
    /\ OutlinksIdle
    /\ BatchIdle
    /\ ExtractIdle
    /\ RunIdle
    /\ NumberIdle
    /\ results \in SeqsUpTo(SourceResults, MaxChannels)
    /\ cpc = "gathered"
    /\ earlier = <<>>

NextCombine ==
    \/ combine
    \/ \E order \in Orders(Len(results)) : run_again(order)

SpecCombine == InitCombine /\ [][NextCombine]_vars

C9_Terminates == (feed.unreachable = 0) => <>(gpc \in {"done", "raised"})

\* a step of the generator of the current get_items call
GeneratorStep ==
    /\ ~(gpc \in {"done", "raised"} /\ gpc' = "start")
    /\ requested' = <<>> \/ Head(requested') # ChannelPage

\* the posts of the page are exhausted, the count is below max_posts and the
\* page has a load-more anchor
MorePagesWanted ==
    /\ gpc = "page"
    /\ idx = feed.posts[page]
    /\ emitted < max_posts
    /\ feed.more[page] # 0

\* C10: get_items goes on to fetch a next page exactly when the posts of the
\* page are exhausted, the count is below max_posts and the page has a
\* load-more anchor; a page is fetched only then; once the count has reached
\* max_posts nothing more is yielded or fetched; at the end of a page
\* without anchor the run ends
C10_NextPageIff ==
    [][GeneratorStep =>
       /\ gpc' = "load_more" <=> MorePagesWanted
       /\ (gpc # "start" /\ (page' # page \/ gpc = "load_more")) =>
             /\ gpc = "load_more"
             /\ emitted < max_posts
             /\ gpc' = "raised" \/ (page' = feed.more[page] /\ idx' = 0)
       /\ (gpc # "start" /\ emitted >= max_posts) =>
             /\ emitted' = emitted
             /\ page' = page
             /\ gpc' = "done"
       /\ (gpc = "page" /\ idx = feed.posts[page] /\ feed.more[page] = 0) =>
             gpc' = "done"]_vars

\* C10 witness: on page 2, fetched behind page 1, the count reached
\* MAX_FETCH with the last post of the page, and the run ended although the
\* page has a load-more anchor
C10_Witness ==
    /\ gpc = "done"
    /\ page = 2
    /\ emitted = MAX_FETCH
    /\ idx = feed.posts[page]
    /\ feed.more[page] # 0

\* C11: when the first page is fetched and its resolved URL lacks '/s/',
\* the first step of get_items ends the call: no post is yielded, no error is
\* raised, and the generator, once ended, takes no further step, so that no
\* page is requested behind the first
C11_NoPublicList ==
    [][/\ (GeneratorStep /\ gpc = "done") => FALSE
       /\ (GeneratorStep /\ gpc = "start" /\ ~feed.public
            /\ initial_page.outcome = "ok") =>
          /\ gpc' = "done"
          /\ emitted' = 0
          /\ last_post' = <<>>
          /\ requested' = initial_page.requests]_vars

\* C11 witness: the call ended with nothing yielded although the first page
\* has post elements and a load-more anchor
C11_Witness ==
    /\ gpc = "done"
    /\ ~feed.public
    /\ feed.unreachable = 0
    /\ feed.posts[1] > 0
    /\ feed.more[1] # 0
    /\ max_posts = MAX_FETCH
    /\ emitted = 0
    /\ requested = <<1>>

\* C12 as claimed: the first step of every get_items call requests page 1
C12_AlwaysRefetches ==
    [][(GeneratorStep /\ gpc = "start") => requested' = <<1>>]_vars

\* C12: the first step of a get_items call requests page 1 exactly when the
\* scraper object holds no response of an earlier get_items call or entity
\* lookup; a response held is reused and stays the one held
C12_RefetchesUnlessCached ==
    [][(GeneratorStep /\ gpc = "start") =>
          /\ requested' = <<1>> <=> initial_page_response = "None"
          /\ requested' = <<>> <=> initial_page_response # "None"
          /\ initial_page_response # "None" =>
                initial_page_response' = initial_page_response]_vars

\* C12 witness: a get_items call on an object that holds a response has
\* taken its first step, with posts to come, without a request
C12_Witness ==
    /\ gpc = "page"
    /\ idx = 0
    /\ feed.posts[1] > 0
    /\ requested = <<>>
    /\ initial_page_response = "page 1"

\* the step yields a post of the page the post before it came from
NextOfSamePage ==
    /\ GeneratorStep
    /\ last_post # <<>>
    /\ last_post' # last_post
    /\ last_post'.page = page
    /\ idx > 0

Succeeds(ch) == \A i \in DOMAIN ch : Reachable(ch[i])

RECURSIVE LinksOfPages(_)
LinksOfPages(ch) ==
    IF ch = <<>> THEN <<>> ELSE Head(ch).links \o LinksOfPages(Tail(ch))

\* what source t is to contribute: the links of its pages if it is a channel
\* whose pages can all be fetched, nothing otherwise
SourceLinks(t) ==
    IF t <= Len(telegram_channels) /\ Succeeds(telegram_channels[t])
    THEN ByProtocol(LinksOfPages(telegram_channels[t]))
    ELSE EmptyLinks

\* C14: a channel task with a page that cannot be fetched (retries exhausted
\* or status not 200) ends in the except branch and returns the empty
\* dictionary, whatever it collected from earlier pages; a channel task whose
\* pages are all fetched does not
C14_FailedSourceEmpty ==
    \A t \in DOMAIN tasks :
        (tasks[t].kind = "telegram" /\ tasks[t].state = "done") =>
            /\ tasks[t].caught <=> ~Succeeds(telegram_channels[t])
            /\ tasks[t].caught => tasks[t].result = EmptyLinks

\* C14 witness: the task took a link from page 1, failed on page 2 and
\* returned nothing
C14_Witness ==
    /\ Len(tasks) >= 1
    /\ tasks[1].state = "done"
    /\ tasks[1].page = 2
    /\ tasks[1].caught
    /\ tasks[1].all_links # EmptyLinks
    /\ tasks[1].result = EmptyLinks

\* number of occurrences of x in seq
Count(seq, x) == Len(SelectSeq(seq, LAMBDA y : y = x))

RECURSIVE SumOver(_, _, _)
SumOver(n, p, l) ==
    IF n = 0 THEN 0 ELSE Count(SourceLinks(n)[p], l) + SumOver(n - 1, p, l)

\* C16: scrape_all_sources ends for every list of sources; a task returns
\* what its own source is to contribute, nothing when the source failed,
\* whatever happened to the other tasks; and the dictionary handed to the
\* reduction holds every link of every successful source, as often as the
\* sources hold it
C16_FailuresContained ==
    /\ sa_pc \in {"start", "gather", "done"}
    /\ \A t \in DOMAIN tasks :
          tasks[t].state = "done" => tasks[t].result = SourceLinks(t)
    /\ (sa_pc = "gather" /\ \A t \in DOMAIN tasks : tasks[t].state = "done")
          => running = 0
    /\ sa_pc = "done" =>
          /\ \A t \in DOMAIN tasks : tasks[t].state = "done"
          /\ call.op = "deduplicate_links"
          /\ \A p \in Protocols : \A l \in DedupLinks :
                Count(call.arg[p], l) = SumOver(Len(tasks), p, l)

\* C16 witness: the first channel failed, the second and third source ended
\* behind it and the links of the second reached the reduction
C16_Witness ==
    /\ sa_pc = "done"
    /\ Len(tasks) = 3
    /\ tasks[1].caught
    /\ ~tasks[2].caught
    /\ tasks[3].kind = "github"
    /\ call.arg = tasks[2].result
    /\ TotalLinks(call.arg) = 2

\* C17: the checker is read and written by one step only, the
\* deduplicate_links call scrape_all_sources makes when every task is done
\* and none is running; every run that ends makes that call
C17_ReduceAfterBarrier ==
    [][/\ (call' # call \/ seen_hashes' # seen_hashes
              \/ seen_configs' # seen_configs \/ kept' # kept) =>
             /\ call.op = "none"
             /\ call'.op = "deduplicate_links"
             /\ sa_pc = "gather"
             /\ sa_pc' = "done"
             /\ running = 0
             /\ \A t \in DOMAIN tasks : tasks[t].state = "done"
       /\ (sa_pc # "done" /\ sa_pc' = "done") => call' # call]_vars

\* C17 witness: the reduction ran behind three tasks and kept a link
C17_Witness ==
    /\ sa_pc = "done"
    /\ Len(finished) = 3
    /\ seen_hashes # {}
    /\ call.duplicate_count = 1

RECURSIVE InOrder(_)
InOrder(order) ==
    IF order = <<>> THEN EmptyLinks
    ELSE [p \in Protocols |->
            tasks[Head(order)].result[p] \o InOrder(Tail(order))[p]]

\* C18: the dictionary handed to the reduction is the concatenation of the
\* tasks' results in the order the tasks completed
C18_CompletionOrder ==
    sa_pc = "done" => call.arg = InOrder(finished)

\* C18 witness: two channels with different links, each with its listing
\* order among the runs; the links of the one that finished first come first
C18_Witness ==
    /\ sa_pc = "done"
    /\ Len(telegram_channels) = 2
    /\ finished = <<1, 2>>
    /\ tasks[1].result["ss"] = <<S2>>
    /\ tasks[2].result["ss"] = <<S1>>
    /\ call.arg["ss"] = <<S2, S1>>

\* the task waits for a response or for the end of a backoff
Waiting(t) == tasks[t].state \in {"fetching", "backoff"}

\* the loop can take a step of task u
TaskStep(u) ==
    \/ scrape_telegram_channel(u)
    \/ fetch_returns(u)
    \/ backoff_ends(u)
    \/ scrape_github_urls(u)

\* C19: while a channel task waits for a response or for the end of a
\* backoff, the loop can run another task that is not done, if there is one
C19_SiblingsProgress ==
    \A t \in DOMAIN tasks :
        (Waiting(t) /\ \E u \in DOMAIN tasks \ {t} : tasks[u].state # "done")
            => \E u \in DOMAIN tasks \ {t} :
                  tasks[u].state # "done" /\ ENABLED TaskStep(u)

(***************************************************************************)
(* Properties of _extract_outlinks.                                        *)
(***************************************************************************)
\* the positions of the <a> elements of the post that are no author links
\* and resolve to url
Appearances(url) ==
    {a \in DOMAIN post_element :
        ~post_element[a].author /\ urljoin(PageUrl, post_element[a].href) = url}

\* C15: the outlinks of a post hold no URL twice, hold the URLs in the order
\* of their first appearance in the post element, and hold neither the raw
\* URL nor the canonical URL of the post
C15_OutlinksClean ==
    opc = "done" =>
        /\ \A j, k \in DOMAIN outlinks : outlinks[j] = outlinks[k] => j = k
        /\ \A k \in DOMAIN outlinks : Appearances(outlinks[k]) # {}
        /\ \A j, k \in DOMAIN outlinks :
              j < k => Min(Appearances(outlinks[j])) < Min(Appearances(outlinks[k]))
        /\ \A k \in DOMAIN outlinks :
              outlinks[k] \notin {RawUrl, replace_tme(RawUrl)}

(***************************************************************************)
(* Properties of SimpleGitHubChannelScraper.get_items.                     *)
(***************************************************************************)
\* C20: the coroutine requests a URL only right behind a delay for that URL,
\* one delay and one request for each URL it has come to, in list order; and
\* while it is delayed the thread is with the loop, which can run another
\* task that is ready
C20_DelayBeforeFetch ==
    /\ \A k \in DOMAIN awaits :
          awaits[k] = <<IF k % 2 = 1 THEN "sleep" ELSE "get", (k + 1) \div 2>>
    /\ Len(awaits) = CASE bpc = "delay" -> 2 * url_index - 1
                       [] bpc = "fetch" -> 2 * url_index
                       [] bpc = "done" -> 2 * Len(urls)
                       [] OTHER -> 0
    /\ bpc = "delay" =>
          /\ thread = "loop"
          /\ sibling = "ready" => ENABLED sibling_runs

\* C20 witness: the coroutine is delayed before its second request, and the
\* other task ran during the delay before the first
C20_Witness ==
    /\ bpc = "delay"
    /\ url_index = 2
    /\ awaits = <<<<"sleep", 1>>, <<"get", 1>>, <<"sleep", 2>>>>
    /\ sibling = "delay"

\* C39, for the coroutine get_items of extractor.py alone: the URLs are
\* requested one at a time in list order, a URL that fails (another status
\* than 200, a timeout, no text) adds no item and every later URL is still
\* requested, and the items are the URLs with content, in list order.
C39_CoroutineSkipsFailures ==
    LET fetched(i) == i < url_index \/ bpc = "done"
        gets == SelectSeq(awaits, LAMBDA a : a[1] = "get")
    IN  /\ items = SelectSeq([i \in 1..Len(urls) |-> i],
                             LAMBDA i : fetched(i) /\ Content(urls[i]))
        /\ \A k \in DOMAIN gets : gets[k] = <<"get", k>>
        /\ bpc = "done" => Len(gets) = Len(urls)

\* C39 as claimed: the task of the raw-text batch fetches its URLs one at a
\* time in list order and returns the content of every URL that answers: a
\* batch task that is done has come to its URLs and was not ended by an
\* exception before its first request.
C39_BatchFetchesItsUrls ==
    \A t \in DOMAIN tasks :
        (tasks[t].kind = "github" /\ tasks[t].state = "done" /\ github_urls # <<>>) =>
            ~tasks[t].caught

(***************************************************************************)
(* Properties of the combined result.                                      *)
(***************************************************************************)
\* C21 as stated: for the same per-source results in two orders,
\* scrape_all_sources returns, per protocol, the same set of link strings.
C21_SameMembers ==
    (cpc = "returned" /\ earlier # <<>>) =>
        \A p \in Protocols : Members(call.ret[p]) = Members(earlier[1].links[p])

\* C21: for the same per-source results in two orders, every link of the one
\* result is in the other result or collides with a link of it (same
\* normalized text or same signature), and both hold only links the sources
\* returned, each under its protocol.
C21_SameUpToCollision ==
    (cpc = "returned" /\ earlier # <<>>) =>
        LET now == call.ret
            was == earlier[1].links
            input == CombineResults(results, EmptyLinks)
        IN  /\ \A a \in AllMembers(now) :
                  \E b \in AllMembers(was) : a = b \/ Collide(a, b)
            /\ \A b \in AllMembers(was) :
                  \E a \in AllMembers(now) : a = b \/ Collide(a, b)
            /\ \A p \in Protocols :
                  /\ Members(now[p]) \subseteq Members(input[p])
                  /\ Members(was[p]) \subseteq Members(input[p])

\* two sources, S2 from the one and S1, S3 from the other: one order of the
\* sources keeps S2 alone, the other keeps S1 and S3
C21_Witness ==
    /\ cpc = "returned"
    /\ earlier # <<>>
    /\ earlier[1].results = <<ByProtocol(<<S2>>), ByProtocol(<<S1, S3>>)>>
    /\ results = <<ByProtocol(<<S1, S3>>), ByProtocol(<<S2>>)>>
    /\ earlier[1].links["ss"] = <<S2>>
    /\ call.ret["ss"] = <<S1, S3>>

(***************************************************************************)
(* Properties of extract_links.                                            *)
(***************************************************************************)
\* the vmess link is the prefix and one body that decodes to a JSON object
\* with non-empty add, port, id and ps and a port from 1 to 65535
VmessWellFormed(link) ==
    /\ Len(link) = 3
    /\ SubSeq(link, 1, 2) = <<"vme", "ss://">>
    /\ link[3] \in DOMAIN VmessConfigs
    /\ LET config == VmessConfigs[link[3]]
       IN  /\ config.add # <<>>
           /\ config.id # <<>>
           /\ config.ps # <<>>
           /\ config.port \in 1..65535

\* C22: every vmess link extract_links returns has a body that decodes to
\* JSON with non-empty add, port, id and ps and a port in [1,65535]; the
\* vmess matches that fail this are left out, the others are returned in the
\* order matched, and the call returns.
C22_VmessValidated ==
    xpc \in {"extracted", "deduplicated"} =>
        /\ \A i \in 1..Len(extracted["vmess"]) : VmessWellFormed(extracted["vmess"][i])
        /\ extracted["vmess"] = SelectSeq(matched["vmess"], VmessWellFormed)

\* C22 witness: a text with a valid vmess link and one whose ps is empty;
\* both are matched, the first alone is returned
C22_Witness ==
    /\ xpc = "extracted"
    /\ content = VA \o <<" ">> \o VE
    /\ matched["vmess"] = <<VA, VE>>
    /\ extracted["vmess"] = <<VA>>

\* the ss link has, left of its first '@', credentials that base64-decode to
\* a text with a ':', and right of it, up to the first '#', a host, a ':'
\* and a port that is a number from 1 to 65535
SsWellFormed(link) ==
    /\ Head(link) = "ss://"
    /\ Positions(Tail(link), "@") # {}
    /\ LET credentials == Before(Tail(link), "@")
           server_part == SplitFirst(After(Tail(link), "@"), "#")
           colons == {i \in 1..Len(server_part) : HasColon(server_part[i])}
       IN  /\ ~Base64Raises(credentials, 0)
           /\ DecodedText(credentials) # "none"
           /\ \E i \in 1..Len(DecodedText(credentials)) :
                 DecodedText(credentials)[i] = ":"
           /\ colons # {}
           /\ server_part[Max(colons)] = ":"
           /\ Max(colons) > 1
           /\ Len(server_part) = Max(colons) + 1
           /\ server_part[Len(server_part)] \in DOMAIN PortValue
           /\ PortValue[server_part[Len(server_part)]] \in 1..65535

\* the credentials of an ss match are not valid base64
BadCredentials(match) ==
    Base64Raises(Before(Tail(match), "@"), 0)

\* C23: every ss link extract_links returns has credentials that decode to a
\* text with a ':' and a host:port with a numeric port in [1,65535]; an ss
\* match whose credentials are not valid base64 is in neither the returned
\* list nor the final set.
C23_SsValidated ==
    xpc \in {"extracted", "deduplicated"} =>
        /\ \A i \in 1..Len(extracted["ss"]) : SsWellFormed(extracted["ss"][i])
        /\ extracted["ss"] = SelectSeq(matched["ss"], SsWellFormed)
        /\ \A i \in 1..Len(matched["ss"]) :
              BadCredentials(matched["ss"][i]) =>
                  /\ matched["ss"][i] \notin Members(extracted["ss"])
                  /\ xpc = "deduplicated" =>
                        matched["ss"][i] \notin Members(call.ret["ss"])

\* C23 witness: a text with a valid ss link and one with credentials of nine
\* characters; both are matched, the first alone is in the final set
C23_Witness ==
    /\ xpc = "deduplicated"
    /\ content = S1 \o <<" ">> \o SX
    /\ matched["ss"] = <<S1, SX>>
    /\ BadCredentials(SX)
    /\ extracted["ss"] = <<S1>>
    /\ call.ret["ss"] = <<S1>>

\* the credential length the pattern of protocol p asks for
CredentialFits(p, n) == IF p = "vless" THEN n = 36 ELSE n >= 8

\* the link is p's prefix, a credential segment of hexadecimal digits and
\* dashes of the length the pattern asks for, '@', and at least one more
\* character, none of them whitespace
HexCredentialAtTail(p, link) ==
    LET rest == Drop(link, Len(Prefix(p)))
    IN  /\ Lower(SubSeq(link, 1, Len(Prefix(p)))) = Prefix(p)
        /\ Positions(rest, "@") # {}
        /\ \A i \in 1..Len(Before(rest, "@")) : HexClass(Before(rest, "@")[i])
        /\ CredentialFits(p, Length(Before(rest, "@")))
        /\ After(rest, "@") # <<>>
        /\ \A i \in 1..Len(rest) : ~IsSpace(rest[i])

\* urlparse of the link gives a host and a port
HostPortResolved(link) ==
    /\ Hostname(link) # <<"None">>
    /\ PortPart(link) # <<>>
    /\ ~PortRaises(link)

\* C24 as stated: every vless or trojan link extract_links returns has an
\* authority that resolves to a host and a port.
C24_HostPortResolved ==
    xpc \in {"extracted", "deduplicated"} =>
        \A p \in {"vless", "trojan"} : \A i \in 1..Len(extracted[p]) :
            HostPortResolved(extracted[p][i])

\* C24: every vless or trojan link extract_links returns is a hexadecimal
\* credential segment of the pattern's length, '@' and at least one
\* non-whitespace character, under the lower-case scheme prefix; of the
\* matches of the two patterns exactly those with the lower-case prefix are
\* returned, in the order matched.
C24_PatternAndPrefix ==
    xpc \in {"extracted", "deduplicated"} =>
        \A p \in {"vless", "trojan"} :
            /\ \A i \in 1..Len(matched[p]) : HexCredentialAtTail(p, matched[p][i])
            /\ extracted[p] =
                  SelectSeq(matched[p], LAMBDA m : StartsWith(m, Prefix(p)))

\* C24 witness: a vless link with no port behind its host is returned, a
\* trojan link with host and port under an upper-case scheme is not
C24_Witness ==
    /\ xpc = "extracted"
    /\ content = LH \o <<" ">> \o TU
    /\ ~HostPortResolved(LH)
    /\ extracted["vless"] = <<LH>>
    /\ HostPortResolved(TU)
    /\ matched["trojan"] = <<TU>>
    /\ extracted["trojan"] = <<>>

\* links that extract_links returns when the text is the link alone
ValidLinks == {VA, VB, L1, T1, S1, S3, R1}

\* the protocol whose prefix the link begins with
ProtocolOf(link) == CHOOSE p \in Protocols : StartsWith(link, Prefix(p))

\* the links of a list written one after the other, nothing between them
RECURSIVE Concatenated(_)
Concatenated(ls) == IF ls = <<>> THEN <<>> ELSE Head(ls) \o Concatenated(Tail(ls))

\* C25 as stated: when the text is valid links of any protocols concatenated
\* without separators, each of them is matched whole under its protocol and
\* each is returned.
C25_ConcatenatedMatchedWhole ==
    xpc \in {"extracted", "deduplicated"} =>
        \A ls \in SeqsUpTo(ValidLinks, MaxTextLinks) :
            content = Concatenated(ls) =>
                \A i \in 1..Len(ls) :
                    /\ ls[i] \in Members(matched[ProtocolOf(ls[i])])
                    /\ ls[i] \in Members(extracted[ProtocolOf(ls[i])])

\* the links of a list written one after the other with a space between them
RECURSIVE SpaceSeparated(_)
SpaceSeparated(ls) ==
    IF ls = <<>> THEN <<>>
    ELSE IF Len(ls) = 1 THEN Head(ls)
    ELSE Head(ls) \o <<" ">> \o SpaceSeparated(Tail(ls))

\* C26 as stated: for the links extract_links returned for a protocol,
\* extract_links on the text of just these links, separated by spaces,
\* returns the same links for that protocol and nothing for the others.
C26_FixedPoint ==
    xpc \in {"extracted", "deduplicated"} =>
        \A p \in Protocols :
            LET again == ExtractLinks(SpaceSeparated(extracted[p]))
            IN  /\ again[p] = extracted[p]
                /\ \A q \in Protocols \ {p} : again[q] = <<>>

\* link stands in text from position i on
OccursAt(text, i, link) ==
    /\ i + Len(link) - 1 <= Len(text)
    /\ SubSeq(text, i, i + Len(link) - 1) = link

\* the valid links of protocol p that occur in text from position i on, in
\* the order of their occurrence, each as often as it occurs
RECURSIVE Occurring(_, _, _)
Occurring(text, p, i) ==
    IF i > Len(text) THEN <<>>
    ELSE LET here == {c \in ValidLinks : ProtocolOf(c) = p /\ OccursAt(text, i, c)}
         IN  (IF here = {} THEN <<>> ELSE <<CHOOSE c \in here : TRUE>>)
                \o Occurring(text, p, i + 1)

\* the valid links of a list
ValidOf(list) == SelectSeq(list, LAMBDA l : l \in ValidLinks)

\* every link of the text is followed by whitespace or by the end of the
\* text: a token that begins a scheme stands first or behind whitespace
Separated(text) ==
    \A i \in 2..Len(text) :
        (/\ text[i] \in {"vme", "vle", "ss://", "trojan://", "TROJAN://", "ssr://"}
         /\ ~(text[i] = "ss://" /\ text[i - 1] \in {"vme", "vle"}))
            => IsSpace(text[i - 1])

\* C35 as stated: extract_links removes no duplicates and keeps no state: a
\* valid link that occurs n times in the text appears n times in its
\* protocol's list, the valid links of a list in the order of their
\* appearance in the text.
C35_OccurrencesListed ==
    xpc = "extracted" =>
        \A p \in Protocols : ValidOf(extracted[p]) = Occurring(content, p, 1)

\* C35 for texts whose links are separated by whitespace
C35_SeparatedOccurrencesListed ==
    (xpc = "extracted" /\ Separated(content)) =>
        \A p \in Protocols : ValidOf(extracted[p]) = Occurring(content, p, 1)

\* C35, the second half: a call of extract_links with the text of the call
\* before it returns what that call returned
C35_SameTextSameResult ==
    [][(xpc = "extracted" /\ xpc' = "extracted" /\ content' = content) =>
          extracted' = extracted]_vars

\* C38: every link in list p of what extract_links returns, and hence of the
\* final LinkSet, starts with the lower-case prefix p + '://' of its own
\* protocol key; a candidate matched case-insensitively with an upper-case
\* scheme is in no list.
C38_LowerCasePrefix ==
    /\ xpc \in {"extracted", "deduplicated"} =>
          \A p \in Protocols :
              \A l \in Members(extracted[p]) \cup Members(found[p]) :
                  StartsWith(l, Prefix(p))
    /\ xpc = "deduplicated" =>
          \A p \in Protocols :
              \A l \in Members(call.ret[p]) : StartsWith(l, Prefix(p))

\* C38 witness: the text held a trojan link with an upper-case scheme and one
\* with a lower-case scheme; both were matched, the second alone was
\* returned and is in the final set
C38_Witness ==
    /\ xpc = "deduplicated"
    /\ content = TU \o <<" ">> \o T1
    /\ matched["trojan"] = <<TU, T1>>
    /\ extracted["trojan"] = <<T1>>
    /\ call.ret["trojan"] = <<T1>>
    /\ ~StartsWith(TU, Prefix("trojan"))
    /\ StartsWith(Lower(TU), Prefix("trojan"))

(***************************************************************************)
(* Properties of extraction followed by deduplication.                     *)
(***************************************************************************)
\* add, port, id, net and type of the JSON object of a validated vmess link
ServerOf(link) ==
    LET config == VmessConfigs[link[3]]
    IN  <<config.add, config.port, config.id, config.net, config.type>>

C28_TwiceReadOnceKept ==
    xpc = "deduplicated" =>
        /\ \A p \in Protocols : Len(call.ret[p]) <= Len(extracted[p])
        /\ \A a \in {VA, VB}, b \in {L1} :
              (/\ content \in {a \o <<" ">> \o b, b \o <<" ">> \o a}
               /\ posts_read = 2) =>
                  call.ret = [EmptyLinks EXCEPT !["vmess"] = <<a>>, !["vless"] = <<b>>]

\* C28 witness: the text "VA L1" was read twice, four links were collected,
\* two are in the final set
C28_Witness ==
    /\ xpc = "deduplicated"
    /\ content = VA \o <<" ">> \o L1
    /\ posts_read = 2
    /\ found["vmess"] = <<VA, VA>>
    /\ found["vless"] = <<L1, L1>>
    /\ call.ret["vmess"] = <<VA>>
    /\ call.ret["vless"] = <<L1>>
    /\ call.duplicate_count = 2

(***************************************************************************)
(* run_scraper and the runs main starts (src/main.py).                     *)
(***************************************************************************)
Runs == 1..MaxRuns

\* what the sources of a run can return altogether, by protocol: nothing, one
\* link, two links with the same text, two links with the same signature
RunInputs ==
    {EmptyLinks, ByProtocol(<<S1>>), ByProtocol(<<S1, S2>>), ByProtocol(<<S2, S3>>)}

\* what the POST to <service_url>/scan of send_links comes to: status 200
\* with a JSON body, status 200 with a body that is not JSON, another
\* status, an exception of the request
ScanOutcomes == {"200", "200, not JSON", "500", "ClientError"}

\* send_links has not been called
NotSent == [answer |-> "none"]

\* send_links without its except clause
send_links_result_uncaught(outcome) ==
    CASE outcome = "200" -> [returned |-> "result"]
      [] outcome = "500" -> [returned |-> "{}"]
      [] OTHER -> [raised |-> outcome]

\* main.py:55-108: what send_links returns for the outcome of its request
send_links_result(outcome) ==
    CASE outcome = "200" -> [returned |-> "result"]  \* lines 86-89
      [] outcome = "500" -> [returned |-> "{}"]      \* lines 90-93
      [] OTHER -> [returned |-> "{}"]                \* lines 94-100: except Exception

\* duplicate.py:14-16: the seen sets of a new DuplicateChecker
NewChecker == [seen_hashes |-> {}, seen_configs |-> {}]

\* the checker of the run before this one handed to its scraper
duplicate_checker_shared(r) == IF r > 1 THEN checker[r - 1] ELSE NewChecker

\* lines 257-261 and 121: the checker of the scraper that run r constructs
duplicate_checker(r) == NewChecker

\* the test of line 271 never taken
NothingFound_never(links) == FALSE

\* lines 268-271: total_links == 0
NothingFound(links) == TotalLinks(links) = 0

\* lines 329-334: run r can start: the runs start in order; the immediate
\* run is awaited before the schedule is set up, a scheduled run is started
\* from the scheduler thread whatever the runs before it are doing
CanStart(r) ==
    /\ run_pc[r] = "scheduled"
    /\ r > 1 => run_pc[r - 1] # "scheduled"
    /\ (run_immediately /\ r = 2) => run_pc[1] \in {"done", "failed"}

\* lines 234-266: the environment is read, the channel list downloaded, the
\* scraper with its checker, the LinkManager and the NamiraInterface are
\* constructed, and scrape_all_sources is awaited
run_scraper(r) ==
    /\ CanStart(r)
    /\ run_pc' = [run_pc EXCEPT ![r] = "scraping"]
    /\ checker' = [checker EXCEPT ![r] = duplicate_checker(r)]
    /\ UNCHANGED <<run_immediately, gathered, run_links, calls, sent,
                   dvars, rvars, gvars, avars, ovars, bvars, cvars, evars, nvars>>

\* lines 241, 247-248, 253 and 303-305: reading the environment or the
\* channel list raises, the exception is logged and run_scraper returns
run_scraper_fails(r) ==
    /\ CanStart(r)
    /\ run_pc' = [run_pc EXCEPT ![r] = "failed"]
    /\ UNCHANGED <<run_immediately, checker, gathered, run_links, calls, sent,
                   dvars, rvars, gvars, avars, ovars, bvars, cvars, evars, nvars>>

\* line 266 with main.py:194-206: the sources have returned combined_links,
\* the scraper's checker deduplicates them, links is assigned
scrape_all_sources(r, combined_links) ==
    /\ run_pc[r] = "scraping"
    /\ LET st == DedupLoop(Flatten(combined_links, ProtocolOrder),
                           [seen_hashes |-> checker[r].seen_hashes,
                            seen_configs |-> checker[r].seen_configs,
                            deduplicated |-> EmptyLinks, duplicate_count |-> 0,
                            kept |-> [l \in DedupLinks |-> 0]])
       IN  /\ checker' = [checker EXCEPT ![r] = [seen_hashes |-> st.seen_hashes,
                                                 seen_configs |-> st.seen_configs]]
           /\ run_links' = [run_links EXCEPT ![r] = st.deduplicated]
    /\ gathered' = [gathered EXCEPT ![r] = combined_links]
    /\ run_pc' = [run_pc EXCEPT ![r] = "scraped"]
    /\ UNCHANGED <<run_immediately, calls, sent,
                   dvars, rvars, gvars, avars, ovars, bvars, cvars, evars, nvars>>

\* lines 268-273: with no link at all run_scraper returns
check_total(r) ==
    /\ run_pc[r] = "scraped"
    /\ run_pc' = [run_pc EXCEPT ![r] =
                     IF NothingFound(run_links[r]) THEN "done" ELSE "saving"]
    /\ UNCHANGED <<run_immediately, checker, gathered, run_links, calls, sent,
                   dvars, rvars, gvars, avars, ovars, bvars, cvars, evars, nvars>>

\* lines 275-286; manager.py:15-39: a failed write is logged, nothing is raised
save_links(r) ==
    /\ run_pc[r] = "saving"
    /\ calls' = [calls EXCEPT ![r] = Append(@, "save_links")]
    /\ run_pc' = [run_pc EXCEPT ![r] = "exporting"]
    /\ UNCHANGED <<sent, run_immediately, checker, gathered, run_links,
                   dvars, rvars, gvars, avars, ovars, bvars, cvars, evars, nvars>>

\* lines 288-289; manager.py:53-64: a failed write is logged, nothing is raised
export_for_testing(r) ==
    /\ run_pc[r] = "exporting"
    /\ calls' = [calls EXCEPT ![r] = Append(@, "export_for_testing")]
    /\ run_pc' = [run_pc EXCEPT ![r] = "exported"]
    /\ UNCHANGED <<sent, run_immediately, checker, gathered, run_links,
                   dvars, rvars, gvars, avars, ovars, bvars, cvars, evars, nvars>>

\* lines 291-292: send_links is called and awaited
send_links(r) ==
    /\ run_pc[r] = "exported"
    /\ calls' = [calls EXCEPT ![r] = Append(@, "send_links")]
    /\ run_pc' = [run_pc EXCEPT ![r] = "sending"]
    /\ UNCHANGED <<sent, run_immediately, checker, gathered, run_links,
                   dvars, rvars, gvars, avars, ovars, bvars, cvars, evars, nvars>>

\* lines 55-108 and 292-305: the request comes to outcome and send_links
\* returns; the summary is logged and run_scraper returns, or what
\* send_links raises is caught by run_scraper's except clause
send_links_returns(r, outcome) ==
    /\ run_pc[r] = "sending"
    /\ sent' = [sent EXCEPT ![r] = [answer |-> outcome, result |-> send_links_result(outcome)]]
    /\ run_pc' = [run_pc EXCEPT ![r] =
                     IF "raised" \in DOMAIN sent'[r].result THEN "failed" ELSE "done"]
    /\ UNCHANGED <<run_immediately, checker, gathered, run_links, calls,
                   dvars, rvars, gvars, avars, ovars, bvars, cvars, evars, nvars>>

\* lines 315-339: main has read its configuration; no run has started
InitRun ==
    /\ seen_hashes = {}
    /\ seen_configs = {}
    /\ kept = [l \in DedupLinks |-> 0]
    /\ passed = {}
    /\ call = [op |-> "none"]
    /\ RequestIdle
    /\ PagerIdle
    /\ GatherIdle
    /\ OutlinksIdle
    /\ BatchIdle
    /\ CombineIdle
    /\ ExtractIdle
    /\ NumberIdle
    /\ run_immediately \in BOOLEAN
    /\ run_pc = [r \in Runs |-> "scheduled"]
    /\ checker = [r \in Runs |-> NewChecker]
    /\ gathered = [r \in Runs |-> EmptyLinks]
    /\ run_links = [r \in Runs |-> EmptyLinks]
    /\ calls = [r \in Runs |-> <<>>]
    /\ sent = [r \in Runs |-> NotSent]

NextRun ==
    \E r \in Runs :
        \/ run_scraper(r)
        \/ run_scraper_fails(r)
        \/ \E combined_links \in RunInputs : scrape_all_sources(r, combined_links)
        \/ check_total(r)
        \/ save_links(r)
        \/ export_for_testing(r)
        \/ send_links(r)
        \/ \E outcome \in ScanOutcomes : send_links_returns(r, outcome)

SpecRun == InitRun /\ [][NextRun]_vars

\* C32: a failure of the forwarding step is non-fatal: when the scan endpoint
\* answers with a non-200 status or the request raises, send_links returns an
\* empty result without raising, and the run that called it still completes
\* (it logs its summary and returns, it does not end in the except clause).
C32_ForwardingNonFatal ==
    \A r \in Runs :
        sent[r].answer \notin {"none", "200"} =>
            /\ sent[r].result = [returned |-> "{}"]
            /\ run_pc[r] = "done"

\* C32 witness: one run has been answered with status 500, the next has seen
\* its request raise, and both are done
C32_Witness ==
    /\ sent[1].answer = "500"
    /\ sent[2].answer = "ClientError"
    /\ \A r \in {1, 2} : run_pc[r] = "done" /\ calls[r][3] = "send_links"

(***************************************************************************)
(* One call of TelegramChannelScraper._parse_number_with_suffix (called by *)
(* get_channel_info for the photos, videos, links and files counters).     *)
(***************************************************************************)
\* lines 140-173
parse_number(text) ==
    /\ number_pc = "call"
    /\ number_text = text
    /\ number_result' = parse_number_with_suffix(text)
    /\ number_pc' = IF "raised" \in DOMAIN number_result' THEN "raised" ELSE "returned"
    /\ UNCHANGED <<number_text, dvars, rvars, gvars, avars, ovars, bvars, cvars, evars, uvars>>

InitNumber ==
    /\ seen_hashes = {}
    /\ seen_configs = {}
    /\ kept = [l \in DedupLinks |-> 0]
    /\ passed = {}
    /\ call = [op |-> "none"]
    /\ RequestIdle
    /\ PagerIdle
    /\ GatherIdle
    /\ OutlinksIdle
    /\ BatchIdle
    /\ CombineIdle
    /\ ExtractIdle
    /\ RunIdle
    /\ number_text \in NumberTexts
    /\ number_pc = "call"
    /\ number_result = <<>>

NextNumber == \E text \in NumberTexts : parse_number(text)

SpecNumber == InitNumber /\ [][NextNumber]_vars

(***************************************************************************)
(* Properties of _parse_number_with_suffix.                                *)
(***************************************************************************)
\* the number the text shows, times factor: exact, as the digits are whole
\* numbers and factor / 10^d is one for d up to the zeros of factor
Shown(text, factor) ==
    DigitsValue(text.whole, text.decimals) * (factor \div Pow10(Len(text.decimals)))

\* C31: _parse_number_with_suffix returns (value, granularity) with: no
\* suffix -> (the integer, 1); 'K' suffix with d decimal digits shown ->
\* (number x 1000, 1000 / 10^d); 'M' suffix with d decimal digits ->
\* (number x 10^6, 10^6 / 10^d).
C31_ValueAndGranularity ==
    number_pc = "returned" =>
        LET d == Len(number_text.decimals)
        IN  CASE number_text.suffix = "K" ->
                    number_result = [value |-> Shown(number_text, 1000),
                                     granularity |-> 1000 \div Pow10(d)]
              [] number_text.suffix = "M" ->
                    number_result = [value |-> Shown(number_text, 1000000),
                                     granularity |-> 1000000 \div Pow10(d)]
              [] OTHER ->
                    number_result = [value |-> number_text.whole, granularity |-> 1]

\* C31, the granularity alone: it is as the claim says for every text
C31_Granularity ==
    number_pc = "returned" =>
        number_result.granularity =
            CASE number_text.suffix = "K" -> 1000 \div Pow10(Len(number_text.decimals))
              [] number_text.suffix = "M" -> 1000000 \div Pow10(Len(number_text.decimals))
              [] OTHER -> 1

\* C31: the value is the number times the factor or one less, never more and
\* never less than that
C31_ValueOffByOne ==
    number_pc = "returned" /\ number_text.suffix # "" =>
        LET shown == Shown(number_text, IF number_text.suffix = "K" THEN 1000 ELSE 1000000)
        IN  number_result.value \in {shown - 1, shown}

\* "4.1M" has been parsed
C31_Parsed ==
    /\ number_pc = "returned"
    /\ number_text = [whole |-> 4, dot |-> TRUE, decimals |-> <<1>>, suffix |-> "M",
                      spaces |-> FALSE]

(***************************************************************************)
(* Properties of run_scraper.                                              *)
(***************************************************************************)
\* scrape_all_sources has returned to run r
Scraped(r) == run_pc[r] \notin {"scheduled", "scraping", "failed"}

\* s is the first n elements of t
IsPrefix(s, t) == Len(s) <= Len(t) /\ s = SubSeq(t, 1, Len(s))

\* C29: a run whose final LinkSet holds no link returns without calling
\* save_links, export_for_testing or send_links; a run whose LinkSet holds a
\* link calls save_links, then export_for_testing, then send_links, in that
\* order and each once, before it returns; a run calls none of them before
\* scrape_all_sources has returned.
C29_PersistOnlyNonEmpty ==
    \A r \in Runs :
        /\ IsPrefix(calls[r], <<"save_links", "export_for_testing", "send_links">>)
        /\ ~Scraped(r) => calls[r] = <<>>
        /\ (Scraped(r) /\ TotalLinks(run_links[r]) = 0) =>
              /\ calls[r] = <<>>
              /\ run_pc[r] \in {"scraped", "done"}
        /\ (run_pc[r] = "done" /\ TotalLinks(run_links[r]) > 0) =>
              calls[r] = <<"save_links", "export_for_testing", "send_links">>

\* C29 witness: one run has returned with an empty LinkSet and no call,
\* another has returned after the three calls
C29_Witness ==
    /\ run_pc[1] = "done"
    /\ gathered[1] = EmptyLinks
    /\ TotalLinks(run_links[1]) = 0
    /\ calls[1] = <<>>
    /\ run_pc[2] = "done"
    /\ run_links[2]["ss"] = <<S1>>
    /\ calls[2] = <<"save_links", "export_for_testing", "send_links">>

\* C30: every run awaits scrape_all_sources on a checker whose seen sets are
\* empty, and a link its sources returned is missing from its LinkSet only
\* when a link of that same LinkSet has the same normalized text or the same
\* signature, whatever the other runs have kept and also while they are
\* still running.
C30_RunScopedDedup ==
    \A r \in Runs :
        /\ run_pc[r] = "scraping" => checker[r] = NewChecker
        /\ Scraped(r) =>
              \A l \in AllMembers(gathered[r]) :
                  \E k \in AllMembers(run_links[r]) : k = l \/ Collide(k, l)

\* C30 witness: the second run was started while the first was still
\* sending; both were handed S1 by their sources and both kept it
C30_Witness ==
    /\ ~run_immediately
    /\ run_pc[1] = "sending"
    /\ run_links[1]["ss"] = <<S1>>
    /\ run_pc[2] = "done"
    /\ gathered[2]["ss"] = <<S1>>
    /\ run_links[2]["ss"] = <<S1>>

====
